---- MODULE Spec2Model ----
(***************************************************************************)
(* A model of parsedBible: the fetch path (src/fetch_bible.py)             *)
(*   - parse_chapter_html, the verse-extraction traversal (SpecExtract);   *)
(*   - parse_range, the chapter specification resolver (SpecRange);        *)
(*   - grab / download_book / __main__, the bounded-concurrency download   *)
(*     of one book (Spec), one call of it under fairness (SpecLive);       *)
(*   - normalise_book, the book name resolver (SpecNames);                 *)
(* the aggregator (src/convert_bible.py)                                   *)
(*   - main / parse_version, the conversion of the version directories     *)
(*     to one export file each (SpecConvert);                              *)
(* and parse_version run on what a download left on disk (SpecRoundTrip).  *)
(* Text is modelled as a sequence of characters (one-character strings);   *)
(* an HTML character reference is one token that html.unescape replaces.   *)
(***************************************************************************)
EXTENDS Integers, Sequences, FiniteSets, TLC

VARIABLES
  \* ---- parse_chapter_html ----
  dom,                \* the container's content visited so far (history)
  todo,               \* child text node of the Tag just visited, not yet visited
  verses_data,        \* verse number string -> list of text parts
  current_verse_num,  \* None, or the number string of the current verse
  ignore_flag,        \* ignore_next_text_node_if_matches_num
  \* ---- parse_range ----
  arg,                \* the chapter specification
  max_chaps,          \* the book's chapter count
  rest,               \* the comma-separated parts not yet looked at
  out,                \* the list built so far
  range_result,       \* the returned list, None before the return
  rpc,                \* where parse_range is: "idle", "call", "loop", "done"
  \* ---- grab / download_book / __main__ ----
  concurrency,        \* --concurrency
  source,             \* chapter -> the page the site serves for it
  files,              \* path -> content of the files under the book's folder
  out_dir_exists,     \* the book's folder exists
  chapter_list,       \* download_book: the resolved chapter list
  pc,                 \* task -> where the grab coroutine is
  outcome,            \* task -> how its fetch ended ("none" before that)
  result,             \* task -> what grab returned (None, or the chapter)
  sem_value,          \* permits left in the semaphore
  completed,          \* tasks ended and not yet awaited, in order of ending
  awaited,            \* number of tasks download_book has awaited (pbar)
  successful_downloads,
  dpc,                \* where download_book is
  first_saved,        \* chapter -> what its first completed save wrote (history)
  \* ---- convert_bible.py: parse_version / main ----
  book_dirs,          \* the book folders under repo_root: <<version, folder>>
  chapter_files,      \* <<version, folder, file name>> -> content of the file
  args_versions,      \* --versions (empty when the option is not given)
  version_dirs,       \* main: the version directories still to process
  vdir,               \* main: the version being processed
  bible,              \* parse_version: the document being built
  book_folders,       \* parse_version: the entries of version_dir not yet seen
  cur_book,           \* parse_version: order, abbr and folder of the book
  chapters,           \* parse_version: the chapters of the book so far
  jfs,                \* parse_version: the chapter files not yet read
  jf,                 \* parse_version: the chapter file read last
  exports,            \* outfile name -> the document written to it
  processed_count,
  cpc,                \* where convert_bible's main is
  exit_status,        \* the exit status of the process, once cpc = "exited"
  error,              \* the exception that ended the process, if any
  \* ---- normalise_book ----
  user_input,         \* --book as typed
  book,               \* what normalise_book returned
  npc                 \* where normalise_book is

extractVars == <<dom, todo, verses_data, current_verse_num, ignore_flag>>

rangeVars == <<arg, max_chaps, rest, out, range_result, rpc>>

bookVars == <<concurrency, source, files, out_dir_exists, chapter_list, pc,
              outcome, result, sem_value, completed, awaited,
              successful_downloads, dpc, first_saved>>

convertVars == <<book_dirs, chapter_files, args_versions, version_dirs, vdir,
                 bible, book_folders, cur_book, chapters, jfs, jf, exports,
                 processed_count, cpc, exit_status, error>>

namesVars == <<user_input, book, npc>>

vars == <<extractVars, rangeVars, bookVars, convertVars, namesVars>>

notExtract == <<rangeVars, bookVars, convertVars, namesVars>>

notRange == <<extractVars, bookVars, convertVars, namesVars>>

notBook == <<extractVars, rangeVars, convertVars, namesVars>>

notConvert == <<extractVars, rangeVars, bookVars, namesVars>>

notNames == <<extractVars, rangeVars, bookVars, convertVars>>

\* ------------------------------------------------------------------------
\* Bounds of the model
\* ------------------------------------------------------------------------
MaxNodes == 4      \* elements of the content container fed to the traversal

MaxArgLen == 5     \* characters of a chapter specification

MaxChaps == 4      \* largest chapter count parse_range is called with

MaxConcurrency == 2  \* largest --concurrency

MaxBooks == 2      \* book folders under the source root

MaxFiles == 2      \* chapter files under the source root

\* ------------------------------------------------------------------------
\* Characters and Python string helpers
\* ------------------------------------------------------------------------
Digits == <<"0", "1", "2", "3", "4", "5", "6", "7", "8", "9">>

DigitChars == {Digits[i] : i \in 1..10}

\* the characters str.strip() / str.split() treat as whitespace
Whitespace == {" ", "\n", "\t"}

None == <<>>

\* str.isdigit(): non-empty and every character a digit
IsDigit(s) == s # <<>> /\ \A i \in 1..Len(s) : s[i] \in DigitChars

DigitVal(c) == (CHOOSE i \in 1..10 : Digits[i] = c) - 1

RECURSIVE IntOf(_)
\* int(s) of a digit string
IntOf(s) ==
  IF s = <<>> THEN 0
  ELSE 10 * IntOf(SubSeq(s, 1, Len(s) - 1)) + DigitVal(s[Len(s)])

RECURSIVE StrOf(_)
\* str(i) of a non-negative integer
StrOf(i) ==
  IF i < 10 THEN <<Digits[i + 1]>>
  ELSE Append(StrOf(i \div 10), Digits[(i % 10) + 1])

RECURSIVE LStrip(_)
LStrip(s) ==
  IF s # <<>> /\ Head(s) \in Whitespace THEN LStrip(Tail(s)) ELSE s

RECURSIVE RStrip(_)
RStrip(s) ==
  IF s # <<>> /\ s[Len(s)] \in Whitespace
  THEN RStrip(SubSeq(s, 1, Len(s) - 1)) ELSE s

\* str.strip()
Strip(s) == RStrip(LStrip(s))

RECURSIVE Join(_)
\* "".join(parts)
Join(parts) ==
  IF parts = <<>> THEN <<>> ELSE Head(parts) \o Join(Tail(parts))

\* html.unescape on one token: a character reference becomes its character
UnescapeChar(c) ==
  IF c = "&#9;" THEN "\t" ELSE IF c = "&#10;" THEN "\n" ELSE c

\* html.unescape(s)
Unescape(s) == [i \in 1..Len(s) |-> UnescapeChar(s[i])]

\* s.replace(old, new) for one-character old and new
Replace(s, old, new) == [i \in 1..Len(s) |-> IF s[i] = old THEN new ELSE s[i]]

RECURSIVE Split(_)
\* s.split(): the maximal runs of non-whitespace characters, in order
Split(s) ==
  LET t == LStrip(s) IN
  IF t = <<>> THEN <<>>
  ELSE LET n == IF \E i \in 1..Len(t) : t[i] \in Whitespace
                THEN (CHOOSE i \in 1..Len(t) :
                        /\ t[i] \in Whitespace
                        /\ \A j \in 1..(i - 1) : t[j] \notin Whitespace) - 1
                ELSE Len(t)
       IN <<SubSeq(t, 1, n)>> \o Split(SubSeq(t, n + 1, Len(t)))

RECURSIVE JoinSp(_)
\* " ".join(words)
JoinSp(words) ==
  IF words = <<>> THEN <<>>
  ELSE IF Len(words) = 1 THEN words[1]
  ELSE words[1] \o <<" ">> \o JoinSp(Tail(words))

\* ------------------------------------------------------------------------
\* parse_chapter_html: the traversal over container.descendants
\* ------------------------------------------------------------------------
\* A node of container.descendants. For a Tag, text is its get_text(); for a
\* NavigableString, text is the string.
Tag(kind, text) == [kind |-> kind, text |-> text]

Str(text) == [kind |-> "string", text |-> text]

\* labels of <sup class="versenum"> markers met in the model
VerseLabels == {<<"1">>, <<"2", " ">>, <<"3">>, <<"0">>, <<"0", "1">>, <<"a">>}

\* labels of <span class="chapternum"> markers met in the model
ChapterLabels == {<<"1">>, <<"3">>, <<"a">>}

\* text nodes met in the model
TextNodes == {<<"a">>, <<" ">>, <<"\n">>, <<"&#9;">>}

TagNodes ==
  {Tag("versenum", l) : l \in VerseLabels}
    \cup {Tag("chapternum", l) : l \in ChapterLabels}
    \cup {Tag("br", <<>>), Tag("span", <<>>), Tag("other", <<"a">>)}

\* the parser's state as one record
ParserState(vd, cur, flag) ==
  [verses_data |-> vd, current_verse_num |-> cur, ignore_flag |-> flag]

InitialParserState == ParserState(<<>>, None, FALSE)

\* verses_data[k].append(part)
AppendPart(vd, k, part) == [vd EXCEPT ![k] = Append(@, part)]

\* lines 162-172: the number a Tag announces, and whether it is a marker
ExtractedNum(node) ==
  IF node.kind = "versenum" THEN Strip(node.text)
  ELSE IF node.kind = "chapternum"
       THEN (IF IsDigit(Strip(node.text)) THEN <<"1">> ELSE Strip(node.text))
       ELSE None

VerseMarkerFound(node) ==
  \/ node.kind = "versenum"
  \/ node.kind = "chapternum" /\ IsDigit(Strip(node.text))

\* lines 157-193: one Tag of the traversal
StepTag(st, node) ==
  LET num == ExtractedNum(node)
      cur == st.current_verse_num
      vd  == st.verses_data
  IN
  IF VerseMarkerFound(node) /\ num # <<>> /\ IsDigit(num)
  THEN ParserState(IF num \in DOMAIN vd THEN vd ELSE vd @@ (num :> <<>>),
                   num, TRUE)
  ELSE
    LET afterBr ==
          IF node.kind = "br" /\ cur # None
          THEN ParserState(
                 IF vd[cur] = <<>> \/ vd[cur][Len(vd[cur])] # <<"\n">>
                 THEN AppendPart(vd, cur, <<"\n">>) ELSE vd,
                 cur, FALSE)
          ELSE st
    IN
    IF node.kind \in {"span", "chapternum"} /\ Strip(node.text) = <<>>
    THEN [afterBr EXCEPT !.ignore_flag = FALSE]
    ELSE afterBr

\* the comparison of line 201: is this text the label of the marker just met
MatchesNum(text, cur) == Strip(text) = cur

\* lines 195-209: one NavigableString of the traversal
StepString(st, node) ==
  LET cur == st.current_verse_num IN
  IF cur = None THEN st
  ELSE IF st.ignore_flag /\ MatchesNum(node.text, cur)
  THEN [st EXCEPT !.ignore_flag = FALSE]
  ELSE ParserState(AppendPart(st.verses_data, cur, node.text), cur,
                   IF Strip(node.text) # <<>> THEN FALSE ELSE st.ignore_flag)

Step(st, node) ==
  IF node.kind = "string" THEN StepString(st, node) ELSE StepTag(st, node)

\* line 221
RawText(parts) == Unescape(Join(parts))

\* a normalisation that replaces newlines only and does not collapse
ReadableTextNewlinesOnly(raw) == Strip(Replace(raw, "\n", " "))

\* lines 224-225
ReadableText(raw) ==
  Strip(JoinSp(Split(Replace(Replace(raw, "\n", " "), "\t", " "))))

MaxVerse(vd) ==
  LET nums == {IntOf(k) : k \in DOMAIN vd}
  IN CHOOSE m \in nums : \A n \in nums : n <= m

\* a verse list that emits only the numbers a marker was seen for
FormatVersesSeenOnly(vd) ==
  IF DOMAIN vd = {} THEN <<>> ELSE
  LET nums == {i \in 1..MaxVerse(vd) : StrOf(i) \in DOMAIN vd}
      nth(k) == CHOOSE i \in nums : Cardinality({j \in nums : j <= i}) = k
  IN [k \in 1..Cardinality(nums) |->
        LET raw == RawText(vd[StrOf(nth(k))])
        IN [verse |-> StrOf(nth(k)), text |-> Strip(raw),
            readableText |-> ReadableText(raw)]]

\* lines 212-233: the verse list built from verses_data
FormatVerses(vd) ==
  IF DOMAIN vd = {} THEN <<>>
  ELSE [i \in 1..MaxVerse(vd) |->
          LET num_str == StrOf(i)
              raw == RawText(IF num_str \in DOMAIN vd THEN vd[num_str] ELSE <<>>)
          IN [verse |-> num_str, text |-> Strip(raw),
              readableText |-> ReadableText(raw)]]

\* the verse list parse_chapter_html would return were the traversal to end here
verses == FormatVerses(verses_data)

\* ---- actions of the traversal ----
ExtractInit ==
  /\ dom = <<>>
  /\ todo = None
  /\ verses_data = <<>>
  /\ current_verse_num = None
  /\ ignore_flag = FALSE

SetParser(st) ==
  /\ verses_data' = st.verses_data
  /\ current_verse_num' = st.current_verse_num
  /\ ignore_flag' = st.ignore_flag

Parser == ParserState(verses_data, current_verse_num, ignore_flag)

\* the next descendant is a Tag; its child text node, if any, comes next
VisitTag ==
  \E node \in TagNodes :
    /\ todo = None
    /\ Len(dom) < MaxNodes
    /\ dom' = Append(dom, node)
    /\ todo' = node.text
    /\ SetParser(StepTag(Parser, node))
    /\ UNCHANGED notExtract

\* the next descendant is the child text node of the Tag just visited
VisitLabel ==
  /\ todo # None
  /\ todo' = None
  /\ dom' = dom
  /\ SetParser(StepString(Parser, Str(todo)))
  /\ UNCHANGED notExtract

\* the next descendant is a text node of its own
VisitString ==
  \E text \in TextNodes :
    /\ todo = None
    /\ Len(dom) < MaxNodes
    /\ dom' = Append(dom, Str(text))
    /\ todo' = None
    /\ SetParser(StepString(Parser, Str(text)))
    /\ UNCHANGED notExtract

ExtractNext == VisitTag \/ VisitLabel \/ VisitString

\* parse_chapter_html is not running
ExtractIdle == ExtractInit

\* ------------------------------------------------------------------------
\* parse_range
\* ------------------------------------------------------------------------
\* the characters a chapter specification is made of in the model
RangeChars == {"1", "3", "5", "-", ",", " "}

\* specifications that spell, or nearly spell, the word all
AllArgs == {<<"a", "l", "l">>, <<"A", "L", "L">>, <<"A", "l", "l">>,
            <<"a", "l">>, <<" ", "a", "l", "l">>}

RangeArgs ==
  AllArgs \cup UNION {[1..n -> RangeChars] : n \in 0..MaxArgLen}

\* the letters str.lower() and str.upper() map onto each other
LowerLetters ==
  <<"a", "b", "c", "d", "e", "f", "g", "h", "i", "j", "k", "l",
    "m", "n", "o", "p", "q", "r", "s", "t", "u", "v", "w", "x",
    "y", "z", "á", "é", "í", "ó", "ú">>

UpperLetters ==
  <<"A", "B", "C", "D", "E", "F", "G", "H", "I", "J", "K", "L",
    "M", "N", "O", "P", "Q", "R", "S", "T", "U", "V", "W", "X",
    "Y", "Z", "Á", "É", "Í", "Ó", "Ú">>

LowerChar(c) ==
  IF \E i \in 1..Len(UpperLetters) : UpperLetters[i] = c
  THEN LowerLetters[CHOOSE i \in 1..Len(UpperLetters) : UpperLetters[i] = c]
  ELSE c

\* str.lower()
Lower(s) == [i \in 1..Len(s) |-> LowerChar(s[i])]

RECURSIVE SplitOn(_, _)
\* s.split(sep) for a one-character separator
SplitOn(s, sep) ==
  IF \E i \in 1..Len(s) : s[i] = sep
  THEN LET i == CHOOSE k \in 1..Len(s) :
                  s[k] = sep /\ \A j \in 1..(k - 1) : s[j] # sep
       IN <<SubSeq(s, 1, i - 1)>> \o SplitOn(SubSeq(s, i + 1, Len(s)), sep)
  ELSE <<s>>

\* the outcome of int(s) when it raises ValueError
ValueError == -1

\* int(s): surrounding whitespace is ignored, the rest must be digits (the
\* pieces parse_range hands to int hold no sign character)
IntParse(s) ==
  LET t == Strip(s) IN IF IsDigit(t) THEN IntOf(t) ELSE ValueError

\* a range that leaves its upper end out
RangeListExclusive(a, b) == [k \in 1..(b - a) |-> a + k - 1]

\* list(range(a, b + 1))
RangeList(a, b) == [k \in 1..(b - a + 1) |-> a + k - 1]

\* lines 250-266: what one comma-separated part adds to out
PartValues(raw) ==
  LET part == Strip(raw) IN
  IF part = <<>> THEN <<>>
  ELSE IF \E i \in 1..Len(part) : part[i] = "-"
  THEN LET pieces == SplitOn(part, "-") IN
       IF Len(pieces) # 2 THEN <<>>
       ELSE LET a == IntParse(pieces[1])
                b == IntParse(pieces[2])
            IN IF a = ValueError \/ b = ValueError THEN <<>>
               ELSE IF a <= b THEN RangeList(a, b) ELSE <<>>
  ELSE IF IntParse(part) = ValueError THEN <<>> ELSE <<IntParse(part)>>

\* line 269
InBook(n, max) == 1 <= n /\ n <= max

FilterChapters(list, max) == SelectSeq(list, LAMBDA n : InBook(n, max))

RECURSIVE CollectParts(_)
CollectParts(ps) ==
  IF ps = <<>> THEN <<>> ELSE PartValues(Head(ps)) \o CollectParts(Tail(ps))

\* parse_range(arg, max_chaps) as a function
ParseRange(a, max) ==
  IF Lower(a) = <<"a", "l", "l">> THEN RangeList(1, max)
  ELSE FilterChapters(CollectParts(SplitOn(a, ",")), max)

RangeIdle ==
  /\ arg = <<>>
  /\ max_chaps = 0
  /\ rest = <<>>
  /\ out = <<>>
  /\ range_result = None
  /\ rpc = "idle"

RangeInit ==
  /\ arg \in RangeArgs
  /\ max_chaps \in {1, MaxChaps}
  /\ rest = <<>>
  /\ out = <<>>
  /\ range_result = None
  /\ rpc = "call"

\* lines 245-246
RangeAll ==
  /\ rpc = "call"
  /\ Lower(arg) = <<"a", "l", "l">>
  /\ range_result' = RangeList(1, max_chaps)
  /\ rpc' = "done"
  /\ UNCHANGED <<arg, max_chaps, rest, out>>
  /\ UNCHANGED notRange

\* lines 248-249
RangeSplit ==
  /\ rpc = "call"
  /\ Lower(arg) # <<"a", "l", "l">>
  /\ rest' = SplitOn(arg, ",")
  /\ out' = <<>>
  /\ rpc' = "loop"
  /\ UNCHANGED <<arg, max_chaps, range_result>>
  /\ UNCHANGED notRange

\* lines 249-266: one turn of the loop
RangePart ==
  /\ rpc = "loop"
  /\ rest # <<>>
  /\ out' = out \o PartValues(Head(rest))
  /\ rest' = Tail(rest)
  /\ UNCHANGED <<arg, max_chaps, range_result, rpc>>
  /\ UNCHANGED notRange

\* line 269
RangeReturn ==
  /\ rpc = "loop"
  /\ rest = <<>>
  /\ range_result' = FilterChapters(out, max_chaps)
  /\ rpc' = "done"
  /\ UNCHANGED <<arg, max_chaps, rest, out>>
  /\ UNCHANGED notRange

RangeNext == RangeAll \/ RangeSplit \/ RangePart \/ RangeReturn

\* ------------------------------------------------------------------------
\* grab / download_book / __main__
\* ------------------------------------------------------------------------
\* The book downloaded in the model: Haggai, (37, "hag", ...), 2 chapters.
BookCode == <<"h", "a", "g">>

BookOrder == 37

BookChaps == 2

Version == <<"P", "D", "T">>

UpperChar(c) ==
  IF \E i \in 1..Len(LowerLetters) : LowerLetters[i] = c
  THEN UpperLetters[CHOOSE i \in 1..Len(LowerLetters) : LowerLetters[i] = c]
  ELSE c

\* str.upper()
Upper(s) == [i \in 1..Len(s) |-> UpperChar(s[i])]

RECURSIVE ZeroPad(_, _)
\* the digits of a number zero-padded to a width, as {n:0w} formats it
ZeroPad(s, w) == IF Len(s) >= w THEN s ELSE ZeroPad(<<"0">> \o s, w)

\* a file name that carries the number of downloads counted so far
FileNameStamped(book_code, chap) ==
  <<Upper(Version), ZeroPad(StrOf(BookOrder), 2) \o <<"_">> \o book_code,
    book_code \o <<".">> \o ZeroPad(StrOf(chap), 3)
      \o StrOf(successful_downloads) \o <<".", "j", "s", "o", "n">>>>

\* a file name that leaves the chapter number out
FileNamePerBook(book_code, chap) ==
  <<Upper(Version), ZeroPad(StrOf(BookOrder), 2) \o <<"_">> \o book_code,
    book_code \o <<".", "j", "s", "o", "n">>>>

\* lines 307, 338-339: <dest>/<VERSION>/<order:02d>_<code>/<code>.<chap:03>.json
FileName(book_code, chap) ==
  <<Upper(Version), ZeroPad(StrOf(BookOrder), 2) \o <<"_">> \o book_code,
    book_code \o <<".">> \o ZeroPad(StrOf(chap), 3) \o <<".", "j", "s", "o", "n">>>>

\* what the site can serve for a chapter: a page without the content
\* container, a container without any marker, a chapter of two verses
Page(container, nodes) == [container |-> container, nodes |-> nodes]

NoContainer == Page(FALSE, <<>>)

EmptyPage == Page(TRUE, <<>>)

PageA == Page(TRUE, <<Tag("chapternum", <<"1">>), Str(<<"a">>),
                      Tag("versenum", <<"2", " ">>), Str(<<"a", " ">>)>>)

\* the page an earlier run of the program met
OldPage == Page(TRUE, <<Tag("versenum", <<"1">>), Str(<<"a">>)>>)

Pages == {NoContainer, EmptyPage, PageA}

RECURSIVE Descendants(_)
\* container.descendants: each Tag is followed by its child text node
Descendants(nodes) ==
  IF nodes = <<>> THEN <<>>
  ELSE LET n == Head(nodes) IN
       (IF n.kind # "string" /\ n.text # <<>> THEN <<n, Str(n.text)>> ELSE <<n>>)
         \o Descendants(Tail(nodes))

RECURSIVE Traverse(_, _)
\* lines 156-209: the loop over the descendants
Traverse(st, nodes) ==
  IF nodes = <<>> THEN st ELSE Traverse(Step(st, Head(nodes)), Tail(nodes))

\* lines 135-240: parse_chapter_html of a page that has the container
ParseChapterHtml(page, book_code, version, chapter) ==
  [book |-> Upper(book_code), rev |-> version, chapter |-> StrOf(chapter),
   verses |-> FormatVerses(Traverse(InitialParserState,
                                    Descendants(page.nodes)).verses_data)]

\* The content of a file: the JSON documents it holds. A file opened for
\* writing is truncated and holds none until the write is done.
Truncated == <<>>

Whole(data) == <<data>>

\* grab returned None
NoChapter == 0

Tasks == 1..Len(chapter_list)

\* a semaphore that hands out a permit whatever its value
AlwaysAcquire(value) == TRUE

\* line 284: async with sem acquires at once when a permit is left
CanAcquire(value) == value > 0

\* counting every awaited task as a success
CountsAlways(r) == TRUE

\* line 366: result is not None
CountsAsSuccess(r) == r # NoChapter

\* a check that takes every verse list for a non-empty one
HasVersesAlways(data) == TRUE

\* line 288: data["verses"] is not empty
HasVerses(data) == data.verses # <<>>

\* the coroutines that have not ended
Unfinished ==
  {i \in Tasks :
     pc[i] \in {"created", "waiting", "fetching", "extracting", "writing"}}

\* a task is inside write_text: nothing else runs until it returns
Writing == \E i \in Tasks : pc[i] = "writing"

\* an event loop that resumes a coroutine while another one extracts
ExtractingUnseen == FALSE

\* lines 286-287: a task has its page and is inside parse_chapter_html, which
\* holds no suspension point: the event loop resumes no other coroutine until
\* the task ends or suspends
Extracting == \E i \in Tasks : pc[i] = "extracting"

\* line 287: what parse_chapter_html returns for each page the site can
\* serve, for each chapter of the book
ChapterData ==
  [page \in Pages, chap \in 1..BookChaps |->
     ParseChapterHtml(page, BookCode, Upper(Version), chap)]

\* data of line 287 for task i
Data(i) == ChapterData[source[chapter_list[i]], chapter_list[i]]

\* the chapter specifications download_book is called with
ChapterSpecs == {<<"a", "l", "l">>, <<"1">>, <<"1", ",", "1">>, <<"3">>,
                 <<"2", ",", "1", "-", "2">>}

\* line 329: the chapter lists these resolve to for the book
ChapterLists == {ParseRange(spec, BookChaps) : spec \in ChapterSpecs}

\* no save of the chapter was completed yet
NotSaved == [path |-> <<>>, content |-> <<>>, stage |-> "none"]

\* first_saved at the start of a call: what was saved, was saved by an
\* earlier call
EarlierCall(fs) ==
  [c \in DOMAIN fs |->
     IF fs[c].stage = "first" THEN [fs[c] EXCEPT !.stage = "earlier"] ELSE fs[c]]

BookIdle ==
  /\ concurrency = 0
  /\ source = <<>>
  /\ files = <<>>
  /\ out_dir_exists = FALSE
  /\ chapter_list = <<>>
  /\ pc = <<>>
  /\ outcome = <<>>
  /\ result = <<>>
  /\ sem_value = 0
  /\ completed = <<>>
  /\ awaited = 0
  /\ successful_downloads = 0
  /\ dpc = "idle"
  /\ first_saved = <<>>

\* the files an earlier run of the program may have left
StaleFiles(cs) ==
  [f \in {FileName(BookCode, c) : c \in cs} |->
     Whole(ParseChapterHtml(OldPage, BookCode, Upper(Version),
                            CHOOSE c \in cs : FileName(BookCode, c) = f))]

BookInit ==
  /\ concurrency \in 1..MaxConcurrency
  /\ successful_downloads = 0
  /\ source \in [1..BookChaps -> Pages]
  /\ files \in {StaleFiles({}), StaleFiles(1..BookChaps)}
  /\ out_dir_exists = (DOMAIN files # {})
  /\ chapter_list = <<>>
  /\ pc = <<>>
  /\ outcome = <<>>
  /\ result = <<>>
  /\ sem_value = 0
  /\ completed = <<>>
  /\ awaited = 0
  /\ dpc = "idle"
  /\ first_saved = [c \in 1..BookChaps |-> NotSaved]

\* lines 329-332: no valid chapter, the book is skipped
DownloadNoChapters ==
  \E list \in ChapterLists :
    /\ dpc # "running"
    /\ list = <<>>
    /\ dpc' = "no_chapters"
    /\ chapter_list' = <<>>
    /\ pc' = <<>> /\ outcome' = <<>> /\ result' = <<>>
    /\ completed' = <<>> /\ awaited' = 0 /\ successful_downloads' = 0
    /\ first_saved' = EarlierCall(first_saved)
    /\ UNCHANGED <<concurrency, source, files, out_dir_exists, sem_value>>
    /\ UNCHANGED notBook

\* lines 342-349: the folder cannot be created, the book is skipped
DownloadMkdirFails ==
  \E list \in ChapterLists :
    /\ dpc # "running"
    /\ list # <<>>
    /\ dpc' = "mkdir_failed"
    /\ chapter_list' = <<>>
    /\ pc' = <<>> /\ outcome' = <<>> /\ result' = <<>>
    /\ completed' = <<>> /\ awaited' = 0 /\ successful_downloads' = 0
    /\ first_saved' = EarlierCall(first_saved)
    /\ UNCHANGED <<concurrency, source, files, out_dir_exists, sem_value>>
    /\ UNCHANGED notBook

\* a mkdir that creates nothing
MkdirSkipped(exists) == exists

\* lines 306, 343: out_dir.mkdir(parents=True, exist_ok=True) returned: the
\* folder exists, whether it did before or not
Mkdir(exists) == TRUE

\* lines 329-363: the folder is there, the semaphore and one task per chapter
\* of the list are created
DownloadStart ==
  \E list \in ChapterLists :
    /\ dpc # "running"
    /\ list # <<>>
    /\ out_dir_exists' = Mkdir(out_dir_exists)
    /\ chapter_list' = list
    /\ sem_value' = concurrency
    /\ pc' = [i \in 1..Len(list) |-> "created"]
    /\ outcome' = [i \in 1..Len(list) |-> "none"]
    /\ result' = [i \in 1..Len(list) |-> NoChapter]
    /\ completed' = <<>>
    /\ awaited' = 0
    /\ successful_downloads' = 0
    /\ dpc' = "running"
    /\ first_saved' = EarlierCall(first_saved)
    /\ UNCHANGED <<concurrency, source, files>>
    /\ UNCHANGED notBook

\* lines 284-286: the task takes a permit and issues its request
TaskAcquire(i) ==
  /\ dpc = "running" /\ ~Writing /\ ~Extracting
  /\ pc[i] \in {"created", "waiting"}
  /\ CanAcquire(sem_value)
  /\ sem_value' = sem_value - 1
  /\ pc' = [pc EXCEPT ![i] = "fetching"]
  /\ UNCHANGED <<concurrency, source, files, out_dir_exists, chapter_list,
                 outcome, result, completed, awaited, successful_downloads,
                 dpc, first_saved>>
  /\ UNCHANGED notBook

\* line 284: no permit is left, the task waits
TaskBlock(i) ==
  /\ dpc = "running" /\ ~Writing /\ ~Extracting
  /\ pc[i] = "created"
  /\ ~CanAcquire(sem_value)
  /\ pc' = [pc EXCEPT ![i] = "waiting"]
  /\ UNCHANGED <<concurrency, source, files, out_dir_exists, chapter_list,
                 outcome, result, sem_value, completed, awaited,
                 successful_downloads, dpc, first_saved>>
  /\ UNCHANGED notBook

\* the task ends returning None: the permit goes back (end of async with)
ReturnNone(i, how) ==
  /\ outcome' = [outcome EXCEPT ![i] = how]
  /\ sem_value' = sem_value + 1
  /\ result' = [result EXCEPT ![i] = NoChapter]
  /\ pc' = [pc EXCEPT ![i] = "done"]
  /\ completed' = Append(completed, i)
  /\ UNCHANGED <<concurrency, source, files, out_dir_exists, chapter_list,
                 awaited, successful_downloads, dpc, first_saved>>
  /\ UNCHANGED notBook

\* lines 294-303: the fetch raises (HTTP error, timeout, any other error)
GrabFetchFails(i) ==
  /\ dpc = "running" /\ ~Writing /\ ~Extracting
  /\ pc[i] = "fetching"
  /\ ReturnNone(i, "failed")

\* line 286: fetch_html returns the page and parse_chapter_html is entered
GrabFetchReturns(i) ==
  /\ dpc = "running" /\ ~Writing /\ ~Extracting
  /\ pc[i] = "fetching"
  /\ pc' = [pc EXCEPT ![i] = "extracting"]
  /\ outcome' = [outcome EXCEPT ![i] = "ok"]
  /\ UNCHANGED <<concurrency, source, files, out_dir_exists, chapter_list,
                 result, sem_value, completed, awaited, successful_downloads,
                 dpc, first_saved>>
  /\ UNCHANGED notBook

\* lines 138-141, 291-293: the page has no content container
GrabParseError(i) ==
  /\ dpc = "running" /\ ~Writing
  /\ pc[i] = "extracting"
  /\ ~source[chapter_list[i]].container
  /\ ReturnNone(i, "ok")

\* lines 288-290: the verse list is empty
GrabNoVerses(i) ==
  /\ dpc = "running" /\ ~Writing
  /\ pc[i] = "extracting"
  /\ source[chapter_list[i]].container
  /\ ~HasVerses(Data(i))
  /\ ReturnNone(i, "ok")

\* lines 287-307: the page yields verses; the permit goes back and write_text
\* opens the file, which truncates it
GrabOpenFile(i) ==
  /\ dpc = "running" /\ ~Writing
  /\ pc[i] = "extracting"
  /\ source[chapter_list[i]].container
  /\ HasVerses(Data(i))
  /\ outcome' = [outcome EXCEPT ![i] = "ok"]
  /\ sem_value' = sem_value + 1
  /\ pc' = [pc EXCEPT ![i] = "writing"]
  /\ files' = [f \in DOMAIN files \cup {FileName(BookCode, chapter_list[i])} |->
                 IF f = FileName(BookCode, chapter_list[i]) THEN Truncated
                 ELSE files[f]]
  /\ out_dir_exists' = Mkdir(out_dir_exists)
  /\ UNCHANGED <<concurrency, source, chapter_list, result,
                 completed, awaited, successful_downloads, dpc, first_saved>>
  /\ UNCHANGED notBook

\* lines 306-310: mkdir or the opening of the file raises OSError, which no
\* handler of grab catches
GrabSaveFails(i) ==
  /\ dpc = "running" /\ ~Writing
  /\ pc[i] = "extracting"
  /\ source[chapter_list[i]].container
  /\ HasVerses(Data(i))
  /\ outcome' = [outcome EXCEPT ![i] = "ok"]
  /\ sem_value' = sem_value + 1
  /\ pc' = [pc EXCEPT ![i] = "raised"]
  /\ completed' = Append(completed, i)
  /\ UNCHANGED <<concurrency, source, files, out_dir_exists, chapter_list,
                 result, awaited, successful_downloads, dpc, first_saved>>
  /\ UNCHANGED notBook

\* lines 307-311: the content is written and grab returns the chapter
GrabWriteFile(i) ==
  LET c == chapter_list[i] IN
  /\ dpc = "running"
  /\ pc[i] = "writing"
  /\ files' = [files EXCEPT ![FileName(BookCode, c)] = Whole(Data(i))]
  /\ result' = [result EXCEPT ![i] = c]
  /\ pc' = [pc EXCEPT ![i] = "done"]
  /\ completed' = Append(completed, i)
  /\ first_saved' =
       [first_saved EXCEPT ![c] =
          IF first_saved[c].stage = "none"
          THEN [path |-> FileName(BookCode, c), content |-> Whole(Data(i)),
                stage |-> "first"]
          ELSE IF first_saved[c].stage = "earlier"
          THEN [first_saved[c] EXCEPT !.stage = "again"]
          ELSE first_saved[c]]
  /\ UNCHANGED <<concurrency, source, out_dir_exists, chapter_list, outcome,
                 sem_value, awaited, successful_downloads, dpc>>
  /\ UNCHANGED notBook

\* lines 364-368: the next ended task is awaited and its result counted
AwaitResult ==
  /\ dpc = "running" /\ ~Writing /\ ~Extracting
  /\ completed # <<>>
  /\ pc[Head(completed)] = "done"
  /\ completed' = Tail(completed)
  /\ awaited' = awaited + 1
  /\ successful_downloads' =
       IF CountsAsSuccess(result[Head(completed)])
       THEN successful_downloads + 1 ELSE successful_downloads
  /\ UNCHANGED <<concurrency, source, files, out_dir_exists, chapter_list, pc,
                 outcome, result, sem_value, dpc, first_saved>>
  /\ UNCHANGED notBook

\* the tasks still running are cancelled; a cancelled fetch gives its permit back
CancelAll ==
  /\ pc' = [i \in Tasks |-> IF i \in Unfinished THEN "cancelled" ELSE pc[i]]
  /\ sem_value' =
       sem_value + Cardinality({i \in Tasks : pc[i] \in {"fetching", "extracting"}})

\* line 365: the awaited task had raised; the exception leaves download_book
\* and main, and asyncio.run cancels the tasks that are left
AwaitRaises ==
  /\ dpc = "running" /\ ~Writing /\ ~Extracting
  /\ completed # <<>>
  /\ pc[Head(completed)] = "raised"
  /\ completed' = Tail(completed)
  /\ dpc' = "raised"
  /\ CancelAll
  /\ UNCHANGED <<concurrency, source, files, out_dir_exists, chapter_list,
                 outcome, result, awaited, successful_downloads, first_saved>>
  /\ UNCHANGED notBook

\* line 370: every task was awaited, the counts are reported
DownloadFinish ==
  /\ dpc = "running" /\ ~Writing /\ ~Extracting
  /\ awaited = Len(chapter_list)
  /\ dpc' = "finished"
  /\ UNCHANGED <<concurrency, source, files, out_dir_exists, chapter_list, pc,
                 outcome, result, sem_value, completed, awaited,
                 successful_downloads, first_saved>>
  /\ UNCHANGED notBook

\* lines 427-432: KeyboardInterrupt, at any point of the download, also inside
\* write_text; asyncio.run cancels every task
Interrupt ==
  /\ dpc = "running"
  /\ dpc' = "interrupted"
  /\ CancelAll
  /\ UNCHANGED <<concurrency, source, files, out_dir_exists, chapter_list,
                 outcome, result, completed, awaited, successful_downloads,
                 first_saved>>
  /\ UNCHANGED notBook

BookNext ==
  \/ DownloadNoChapters
  \/ DownloadMkdirFails
  \/ DownloadStart
  \/ \E i \in Tasks : TaskAcquire(i)
  \/ \E i \in Tasks : TaskBlock(i)
  \/ \E i \in Tasks : GrabFetchFails(i)
  \/ \E i \in Tasks : GrabFetchReturns(i)
  \/ \E i \in Tasks : GrabParseError(i)
  \/ \E i \in Tasks : GrabNoVerses(i)
  \/ \E i \in Tasks : GrabOpenFile(i)
  \/ \E i \in Tasks : GrabSaveFails(i)
  \/ \E i \in Tasks : GrabWriteFile(i)
  \/ AwaitResult
  \/ AwaitRaises
  \/ DownloadFinish
  \/ Interrupt

\* ------------------------------------------------------------------------
\* convert_bible.py: names, patterns and sorting
\* ------------------------------------------------------------------------
\* the characters of the names in the model, by ascending code point
CodePoints ==
  <<".", "0", "1", "2", "3", "4", "5", "6", "7", "8", "9">>
    \o SubSeq(UpperLetters, 1, 26) \o <<"_">> \o SubSeq(LowerLetters, 1, 26)

\* ord(c)
Ord(c) == CHOOSE i \in 1..Len(CodePoints) : CodePoints[i] = c

RECURSIVE StrLess(_, _)
\* a < b for two strings
StrLess(a, b) ==
  IF b = <<>> THEN FALSE
  ELSE IF a = <<>> THEN TRUE
  ELSE IF a[1] # b[1] THEN Ord(a[1]) < Ord(b[1])
  ELSE StrLess(Tail(a), Tail(b))

RECURSIVE Sorted(_)
\* sorted(names) of a set of distinct names
Sorted(names) ==
  IF names = {} THEN <<>>
  ELSE LET least == CHOOSE n \in names :
                      \A other \in names \ {n} : StrLess(n, other)
       IN <<least>> \o Sorted(names \ {least})

\* the characters [a-z0-9] matches
AlphaNum == {LowerLetters[i] : i \in 1..26} \cup DigitChars

\* the length of the longest prefix of s made of characters of cs
RECURSIVE RunLength(_, _)
RunLength(s, cs) ==
  IF s # <<>> /\ Head(s) \in cs THEN 1 + RunLength(Tail(s), cs) ELSE 0

\* s.startswith(prefix)
StartsWith(s, prefix) ==
  Len(s) >= Len(prefix) /\ SubSeq(s, 1, Len(prefix)) = prefix

\* line 70: re.match(r"(\d{2})_([a-z0-9]+)", name), a match of a prefix of name
MatchBookFolder(name) ==
  LET n == IF Len(name) >= 4 THEN RunLength(SubSeq(name, 4, Len(name)), AlphaNum)
           ELSE 0
  IN IF /\ Len(name) >= 4
        /\ name[1] \in DigitChars /\ name[2] \in DigitChars /\ name[3] = "_"
        /\ n >= 1
     THEN [ok |-> TRUE, order |-> IntOf(SubSeq(name, 1, 2)),
           abbr |-> SubSeq(name, 4, 3 + n)]
     ELSE [ok |-> FALSE, order |-> 0, abbr |-> <<>>]

\* line 137: re.match(r"\d{2}_gen", name)
MatchGenFolder(name) ==
  /\ Len(name) >= 6
  /\ name[1] \in DigitChars /\ name[2] \in DigitChars
  /\ SubSeq(name, 3, 6) = <<"_", "g", "e", "n">>

DotJson == <<".", "j", "s", "o", "n">>

\* line 79: the glob pattern f"{abbr}.*.json"
GlobMatches(abbr, name) ==
  /\ Len(name) >= Len(abbr) + 1 + Len(DotJson)
  /\ StartsWith(name, abbr \o <<".">>)
  /\ SubSeq(name, Len(name) - Len(DotJson) + 1, Len(name)) = DotJson

\* line 80: re.match(rf"{abbr}\.(\d+)\.json", name)
MatchChapterFile(abbr, name) ==
  LET from == Len(abbr) + 2
      n == IF StartsWith(name, abbr \o <<".">>)
           THEN RunLength(SubSeq(name, from, Len(name)), DigitChars) ELSE 0
  IN IF n >= 1 /\ StartsWith(SubSeq(name, from + n, Len(name)), DotJson)
     THEN [ok |-> TRUE, digits |-> SubSeq(name, from, from + n - 1)]
     ELSE [ok |-> FALSE, digits |-> <<>>]

RECURSIVE LStripZeros(_)
\* s.lstrip("0")
LStripZeros(s) ==
  IF s # <<>> /\ Head(s) = "0" THEN LStripZeros(Tail(s)) ELSE s

\* line 83: int(m2.group(1).lstrip("0") or "0")
ChapNum(digits) ==
  IntOf(IF LStripZeros(digits) = <<>> THEN <<"0">> ELSE LStripZeros(digits))

\* lines 32-50: the English names of the books of the model
BOOKS ==
  (<<"g", "e", "n">> :> <<"G", "e", "n", "e", "s", "i", "s">>)
    @@ (<<"e", "x", "o">> :> <<"E", "x", "o", "d", "u", "s">>)
    @@ (<<"h", "a", "g">> :> <<"H", "a", "g", "g", "a", "i">>)

\* str.capitalize()
Capitalize(s) ==
  IF s = <<>> THEN s ELSE <<UpperChar(s[1])>> \o Lower(Tail(s))

\* line 75: BOOKS.get(abbr, abbr.capitalize())
BookName(abbr) ==
  IF abbr \in DOMAIN BOOKS THEN BOOKS[abbr] ELSE Capitalize(abbr)

\* lines 53-55
clean_text(raw) == Unescape(Strip(raw))

\* ------------------------------------------------------------------------
\* convert_bible.py: the chapter files and what parse_version reads in them
\* ------------------------------------------------------------------------
\* a chapter record with two verses, the second one an empty filler
GoodChapter ==
  [verses |-> <<[verse |-> <<"1">>, text |-> <<"a", "\n", "a">>,
                 readableText |-> <<"a", " ", "a">>],
                [verse |-> <<"2">>, text |-> <<>>, readableText |-> <<>>]>>]

\* valid JSON with zero verse entries
NoVerses == [verses |-> <<>>]

\* valid JSON whose verse entry has neither readableText nor text
MissingText == [verses |-> <<[verse |-> <<"1">>]>>]

\* the contents a chapter file has in the model; a truncated file is not JSON
Contents == {Whole(GoodChapter), Whole(NoVerses), Whole(MissingText), Truncated}

\* lines 88-92: one element of the verses comprehension
ParseEntry(v) ==
  IF "verse" \notin DOMAIN v THEN [err |-> "KeyError", number |-> 0, text |-> <<>>]
  ELSE IF IntParse(v.verse) = ValueError
  THEN [err |-> "ValueError", number |-> 0, text |-> <<>>]
  ELSE LET readable == IF "readableText" \in DOMAIN v THEN v.readableText ELSE None
       IN IF readable # <<>>
          THEN [err |-> "", number |-> IntParse(v.verse), text |-> clean_text(readable)]
          ELSE IF "text" \notin DOMAIN v
          THEN [err |-> "KeyError", number |-> 0, text |-> <<>>]
          ELSE [err |-> "", number |-> IntParse(v.verse), text |-> clean_text(v.text)]

\* lines 86-94: json.loads and the verses comprehension; err names the
\* exception raised, "" when none is
ReadChapter(content) ==
  IF Len(content) # 1 THEN [err |-> "JSONDecodeError", verses |-> <<>>]
  ELSE LET data == content[1]
           entries == IF "verses" \in DOMAIN data THEN data.verses ELSE <<>>
           parsed == [i \in 1..Len(entries) |-> ParseEntry(entries[i])]
           bad == {i \in 1..Len(entries) : parsed[i].err # ""}
       IN IF bad # {}
          THEN [err |-> parsed[CHOOSE i \in bad : \A j \in bad : i <= j].err,
                verses |-> <<>>]
          ELSE [err |-> "",
                verses |-> [i \in 1..Len(entries) |->
                              [number |-> parsed[i].number, text |-> parsed[i].text]]]

\* a module whose imports include sys
SysIsImported == TRUE

\* lines 22-27: the names the module imports; sys is not among them, so
\* evaluating sys.stderr raises NameError
SysImported == FALSE

\* lines 59-64
NewBible(rev) ==
  [name |-> <<"B", "i", "b", "l", "e", " ">> \o rev,
   metadata |-> [source |-> "parsedBible repo", revision |-> rev],
   books |-> <<>>]

NoBible == NewBible(<<>>)

NoBook == [order |-> 0, abbr |-> <<>>, folder |-> <<>>]

RECURSIVE SortByNumber(_)
\* line 112: list.sort(key=number), a stable sort
SortByNumber(books) ==
  IF books = <<>> THEN <<>>
  ELSE LET i == CHOOSE k \in 1..Len(books) :
                  /\ \A j \in 1..Len(books) : books[k].number <= books[j].number
                  /\ \A j \in 1..(k - 1) : books[j].number # books[k].number
       IN <<books[i]>>
            \o SortByNumber(SubSeq(books, 1, i - 1) \o SubSeq(books, i + 1, Len(books)))

\* line 167
OutFile(version) == Upper(version) \o <<".", "f", "s", "b">> \o DotJson

\* the orders in which iterdir may list a set of directories
Orderings(S) ==
  {s \in [1..Cardinality(S) -> S] : \A i, j \in 1..Cardinality(S) : s[i] = s[j] => i = j}

\* ------------------------------------------------------------------------
\* convert_bible.py: the repository on disk, and main
\* ------------------------------------------------------------------------
VersionNames == {<<"P", "D", "T">>, <<"n", "t", "v">>}

FolderNames ==
  {<<"0", "1", "_", "g", "e", "n">>, <<"0", "1", "_", "e", "x", "o">>,
   <<"0", "2", "_", "e", "x", "o">>, <<"1", "_", "g", "e", "n">>}

\* the numeric components of the chapter file names
ChapterNumerals == {<<"9">>, <<"0", "1", "0">>}

\* the chapter file names a book folder may hold
FileNames(folder) ==
  {MatchBookFolder(folder).abbr \o <<".">> \o d \o DotJson : d \in ChapterNumerals}

BookDirSets ==
  {D \in SUBSET (VersionNames \X FolderNames) : Cardinality(D) <= MaxBooks}

FileSets(D) ==
  {F \in SUBSET {<<d[1], d[2], n>> : d \in D, n \in UNION {FileNames(f) : f \in FolderNames}} :
     /\ Cardinality(F) <= MaxFiles
     /\ \A x \in F : x[3] \in FileNames(x[2])}

\* --versions as typed, the empty set when the option is not given
VersionArgs == {{}, {<<"p", "d", "t">>}}

\* convert_bible is not running
ConvertIdle ==
  /\ book_dirs = {}
  /\ chapter_files = <<>>
  /\ args_versions = {}
  /\ version_dirs = <<>>
  /\ vdir = <<>>
  /\ bible = NoBible
  /\ book_folders = <<>>
  /\ cur_book = NoBook
  /\ chapters = <<>>
  /\ jfs = <<>>
  /\ jf = <<>>
  /\ exports = <<>>
  /\ processed_count = 0
  /\ cpc = "idle"
  /\ exit_status = 0
  /\ error = ""

\* the repository and the command line main is started with
ConvertInit ==
  /\ book_dirs \in BookDirSets
  /\ chapter_files \in UNION {[F -> Contents] : F \in FileSets(book_dirs)}
  /\ args_versions \in VersionArgs
  /\ version_dirs = <<>>
  /\ vdir = <<>>
  /\ bible = NoBible
  /\ book_folders = <<>>
  /\ cur_book = NoBook
  /\ chapters = <<>>
  /\ jfs = <<>>
  /\ jf = <<>>
  /\ exports = <<>>
  /\ processed_count = 0
  /\ cpc = "start"
  /\ exit_status = 0
  /\ error = ""

\* the version directories of repo_root
VersionsOnDisk == {d[1] : d \in book_dirs}

\* lines 134-138: the versions that hold a folder named like ##_gen
Detected ==
  {v \in VersionsOnDisk : \E d \in book_dirs : d[1] = v /\ MatchGenFolder(d[2])}

\* lines 143-145
Wanted == {Upper(v) : v \in args_versions}

Kept ==
  IF args_versions # {} THEN {v \in Detected : Upper(v) \in Wanted} ELSE Detected

\* lines 147-148
NotFound ==
  IF args_versions # {} THEN Wanted \ {Upper(v) : v \in Kept} ELSE {}

\* the process ends with an exit status
Exits(status, err) ==
  /\ cpc' = "exited"
  /\ exit_status' = status
  /\ error' = err

\* lines 172-174: an exception leaves the try block of main's loop; the
\* handler prints to sys.stderr, and main goes on with the next version if
\* that print succeeds
RaiseInVersion ==
  IF SysImported
  THEN /\ cpc' = "versions"
       /\ version_dirs' = Tail(version_dirs)
       /\ UNCHANGED <<exit_status, error>>
  ELSE /\ Exits(1, "NameError")
       /\ UNCHANGED version_dirs

\* lines 126-156: the versions are detected and filtered
ConvertStart ==
  /\ cpc = "start"
  /\ IF NotFound # {} /\ ~SysImported
     THEN Exits(1, "NameError") /\ UNCHANGED version_dirs
     ELSE IF Kept = {}
     THEN Exits(1, "SystemExit") /\ UNCHANGED version_dirs
     ELSE /\ version_dirs' \in Orderings(Kept)
          /\ cpc' = "versions"
          /\ UNCHANGED <<exit_status, error>>
  /\ UNCHANGED <<book_dirs, chapter_files, args_versions, vdir, bible,
                 book_folders, cur_book, chapters, jfs, jf, exports,
                 processed_count>>
  /\ UNCHANGED notConvert

\* lines 159-162, 59-67: main calls parse_version for the next version
ParseVersionStart ==
  /\ cpc = "versions"
  /\ version_dirs # <<>>
  /\ vdir' = Head(version_dirs)
  /\ bible' = NewBible(Upper(Head(version_dirs)))
  /\ book_folders' = Sorted({d[2] : d \in {x \in book_dirs : x[1] = Head(version_dirs)}})
  /\ cpc' = "books"
  /\ UNCHANGED <<book_dirs, chapter_files, args_versions, version_dirs,
                 cur_book, chapters, jfs, jf, exports, processed_count,
                 exit_status, error>>
  /\ UNCHANGED notConvert

\* lines 67-79: the next entry of the version directory
BookFolder ==
  /\ cpc = "books"
  /\ book_folders # <<>>
  /\ LET folder == Head(book_folders)
         m == MatchBookFolder(folder)
     IN /\ book_folders' = Tail(book_folders)
        /\ IF m.ok
           THEN /\ cur_book' = [order |-> m.order, abbr |-> m.abbr, folder |-> folder]
                /\ chapters' = <<>>
                /\ jfs' = Sorted({x[3] : x \in
                             {y \in DOMAIN chapter_files :
                                /\ y[1] = vdir /\ y[2] = folder
                                /\ GlobMatches(m.abbr, y[3])}})
                /\ cpc' = "files"
           ELSE UNCHANGED <<cur_book, chapters, jfs, cpc>>
  /\ UNCHANGED <<book_dirs, chapter_files, args_versions, version_dirs, vdir,
                 bible, jf, exports, processed_count, exit_status, error>>
  /\ UNCHANGED notConvert

\* lines 79-102: the next chapter file of the book folder
ChapterFile ==
  /\ cpc = "files"
  /\ jfs # <<>>
  /\ LET name == Head(jfs)
         path == <<vdir, cur_book.folder, name>>
         m2 == MatchChapterFile(cur_book.abbr, name)
         read == ReadChapter(chapter_files[path])
         \* lines 98, 100, 102: the branches that print to sys.stderr
         prints == read.err \in {"JSONDecodeError", "KeyError"}
                     \/ (read.err = "" /\ read.verses = <<>>)
         raises == read.err = "ValueError" \/ (prints /\ ~SysImported)
     IN /\ jfs' = Tail(jfs)
        /\ IF ~m2.ok
           THEN UNCHANGED <<jf, chapters, cpc, version_dirs, exit_status, error>>
           ELSE /\ jf' = path
                /\ IF raises
                   THEN RaiseInVersion /\ UNCHANGED chapters
                   ELSE /\ chapters' =
                             IF prints THEN chapters
                             ELSE Append(chapters, [number |-> ChapNum(m2.digits),
                                                    verses |-> read.verses])
                        /\ UNCHANGED <<cpc, version_dirs, exit_status, error>>
  /\ UNCHANGED <<book_dirs, chapter_files, args_versions, vdir, bible,
                 book_folders, cur_book, exports, processed_count>>
  /\ UNCHANGED notConvert

\* lines 104-110: the chapter files of the book folder are exhausted
BookDone ==
  /\ cpc = "files"
  /\ jfs = <<>>
  /\ IF chapters # <<>>
     THEN /\ bible' = [bible EXCEPT !.books =
                         Append(@, [number |-> cur_book.order,
                                    name |-> BookName(cur_book.abbr),
                                    chapters |-> chapters])]
          /\ cpc' = "books"
          /\ UNCHANGED <<version_dirs, exit_status, error>>
     ELSE IF SysImported
     THEN /\ cpc' = "books"
          /\ UNCHANGED <<bible, version_dirs, exit_status, error>>
     ELSE RaiseInVersion /\ UNCHANGED bible
  /\ UNCHANGED <<book_dirs, chapter_files, args_versions, vdir, book_folders,
                 cur_book, chapters, jfs, jf, exports, processed_count>>
  /\ UNCHANGED notConvert

\* lines 112-113, 163-171: parse_version returns the document and main
\* writes it, unless it has no book; the write may fail (OSError)
ParseVersionReturn ==
  \E written \in BOOLEAN :
    /\ cpc = "books"
    /\ book_folders = <<>>
    /\ LET bible_json == [bible EXCEPT !.books = SortByNumber(@)]
       IN /\ bible' = bible_json
          /\ IF bible_json.books = <<>>
             THEN /\ written
                  /\ IF SysImported
                     THEN /\ cpc' = "versions"
                          /\ version_dirs' = Tail(version_dirs)
                          /\ UNCHANGED <<exit_status, error>>
                     ELSE RaiseInVersion
                  /\ UNCHANGED <<exports, processed_count>>
             ELSE IF written
             THEN /\ exports' = (OutFile(vdir) :> bible_json) @@ exports
                  /\ processed_count' = processed_count + 1
                  /\ cpc' = "versions"
                  /\ version_dirs' = Tail(version_dirs)
                  /\ UNCHANGED <<exit_status, error>>
             ELSE /\ RaiseInVersion
                  /\ UNCHANGED <<exports, processed_count>>
    /\ UNCHANGED <<book_dirs, chapter_files, args_versions, vdir, book_folders,
                   cur_book, chapters, jfs, jf>>
    /\ UNCHANGED notConvert

\* lines 177-180: every version was looked at, main returns
ConvertFinish ==
  /\ cpc = "versions"
  /\ version_dirs = <<>>
  /\ Exits(0, "")
  /\ UNCHANGED <<book_dirs, chapter_files, args_versions, version_dirs, vdir,
                 bible, book_folders, cur_book, chapters, jfs, jf, exports,
                 processed_count>>
  /\ UNCHANGED notConvert

ConvertNext ==
  \/ ConvertStart
  \/ ParseVersionStart
  \/ BookFolder
  \/ ChapterFile
  \/ BookDone
  \/ ParseVersionReturn
  \/ ConvertFinish

\* ------------------------------------------------------------------------
\* fetch_bible.py: the book table and normalise_book
\* ------------------------------------------------------------------------
\* lines 36-104: (order, code, aliases) of the 66 books, in canonical order
Entry(order, code, names) == [order |-> order, code |-> code, names |-> names]

NamesOrders ==
  <<
    Entry(1, <<"g", "e", "n">>, <<<<"g", "e", "n", "e", "s", "i", "s">>,
      <<"g", "é", "n", "e", "s", "i", "s">>, <<"g", "e", "n">>>>),
    Entry(2, <<"e", "x", "o">>, <<<<"e", "x", "o", "d", "u", "s">>, <<"é",
      "x", "o", "d", "o">>, <<"e", "x", "o">>>>),
    Entry(3, <<"l", "e", "v">>, <<<<"l", "e", "v", "i", "t", "i", "c", "u",
      "s">>, <<"l", "e", "v", "í", "t", "i", "c", "o">>, <<"l", "e",
      "v">>>>),
    Entry(4, <<"n", "u", "m">>, <<<<"n", "u", "m", "b", "e", "r", "s">>,
      <<"n", "ú", "m", "e", "r", "o", "s">>, <<"n", "u", "m">>>>),
    Entry(5, <<"d", "e", "u">>, <<<<"d", "e", "u", "t", "e", "r", "o", "n",
      "o", "m", "y">>, <<"d", "e", "u", "t", "e", "r", "o", "n", "o",
      "m", "i", "o">>, <<"d", "e", "u">>>>),
    Entry(6, <<"j", "o", "s">>, <<<<"j", "o", "s", "h", "u", "a">>, <<"j",
      "o", "s", "u", "é">>, <<"j", "o", "s">>>>),
    Entry(7, <<"j", "d", "g">>, <<<<"j", "u", "d", "g", "e", "s">>, <<"j",
      "u", "e", "c", "e", "s">>, <<"j", "d", "g">>>>),
    Entry(8, <<"r", "u", "t">>, <<<<"r", "u", "t", "h">>, <<"r", "u",
      "t">>>>),
    Entry(9, <<"1", "s", "a">>, <<<<"1", " ", "s", "a", "m", "u", "e",
      "l">>, <<"f", "i", "r", "s", "t", " ", "s", "a", "m", "u", "e",
      "l">>, <<"1", "s", "a">>>>),
    Entry(10, <<"2", "s", "a">>, <<<<"2", " ", "s", "a", "m", "u", "e",
      "l">>, <<"s", "e", "c", "o", "n", "d", " ", "s", "a", "m", "u",
      "e", "l">>, <<"2", "s", "a">>>>),
    Entry(11, <<"1", "k", "i">>, <<<<"1", " ", "k", "i", "n", "g", "s">>,
      <<"1", " ", "r", "e", "y", "e", "s">>, <<"1", "k", "i">>>>),
    Entry(12, <<"2", "k", "i">>, <<<<"2", " ", "k", "i", "n", "g", "s">>,
      <<"2", " ", "r", "e", "y", "e", "s">>, <<"2", "k", "i">>>>),
    Entry(13, <<"1", "c", "h">>, <<<<"1", " ", "c", "h", "r", "o", "n", "i",
      "c", "l", "e", "s">>, <<"1", " ", "c", "r", "o", "n", "i", "c",
      "a", "s">>, <<"1", " ", "c", "r", "ó", "n", "i", "c", "a", "s">>,
      <<"1", "c", "h">>>>),
    Entry(14, <<"2", "c", "h">>, <<<<"2", " ", "c", "h", "r", "o", "n", "i",
      "c", "l", "e", "s">>, <<"2", " ", "c", "r", "o", "n", "i", "c",
      "a", "s">>, <<"2", " ", "c", "r", "ó", "n", "i", "c", "a", "s">>,
      <<"2", "c", "h">>>>),
    Entry(15, <<"e", "z", "r">>, <<<<"e", "z", "r", "a">>, <<"e", "s", "d",
      "r", "a", "s">>, <<"e", "z", "r">>>>),
    Entry(16, <<"n", "e", "h">>, <<<<"n", "e", "h", "e", "m", "i", "a",
      "h">>, <<"n", "e", "h", "e", "m", "i", "a", "s">>, <<"n", "e",
      "h", "e", "m", "í", "a", "s">>, <<"n", "e", "h">>>>),
    Entry(17, <<"e", "s", "t">>, <<<<"e", "s", "t", "h", "e", "r">>, <<"e",
      "s", "t", "e", "r">>, <<"e", "s", "t">>>>),
    Entry(18, <<"j", "o", "b">>, <<<<"j", "o", "b">>>>),
    Entry(19, <<"p", "s", "a">>, <<<<"p", "s", "a", "l", "m", "s">>, <<"s",
      "a", "l", "m", "o", "s">>, <<"p", "s", "a">>>>),
    Entry(20, <<"p", "r", "o">>, <<<<"p", "r", "o", "v", "e", "r", "b",
      "s">>, <<"p", "r", "o", "v", "e", "r", "b", "i", "o", "s">>,
      <<"p", "r", "o">>>>),
    Entry(21, <<"e", "c", "c">>, <<<<"e", "c", "c", "l", "e", "s", "i", "a",
      "s", "t", "e", "s">>, <<"e", "c", "l", "e", "s", "i", "a", "s",
      "t", "e", "s">>, <<"e", "c", "l", "e", "s", "i", "a", "s", "t",
      "é", "s">>, <<"e", "c", "c">>>>),
    Entry(22, <<"s", "n", "g">>, <<<<"s", "o", "n", "g", " ", "o", "f", " ",
      "s", "o", "l", "o", "m", "o", "n">>, <<"s", "o", "n", "g", " ",
      "o", "f", " ", "s", "o", "n", "g", "s">>, <<"c", "a", "n", "t",
      "a", "r", "e", "s">>, <<"c", "a", "n", "t", "a", "r", " ", "d",
      "e", " ", "l", "o", "s", " ", "c", "a", "n", "t", "a", "r", "e",
      "s">>, <<"s", "n", "g">>>>),
    Entry(23, <<"i", "s", "a">>, <<<<"i", "s", "a", "i", "a", "h">>, <<"i",
      "s", "a", "i", "a", "s">>, <<"i", "s", "a", "í", "a", "s">>,
      <<"i", "s", "a">>>>),
    Entry(24, <<"j", "e", "r">>, <<<<"j", "e", "r", "e", "m", "i", "a",
      "h">>, <<"j", "e", "r", "e", "m", "i", "a", "s">>, <<"j", "e",
      "r", "e", "m", "í", "a", "s">>, <<"j", "e", "r">>>>),
    Entry(25, <<"l", "a", "m">>, <<<<"l", "a", "m", "e", "n", "t", "a", "t",
      "i", "o", "n", "s">>, <<"l", "a", "m", "e", "n", "t", "a", "c",
      "i", "o", "n", "e", "s">>, <<"l", "a", "m">>>>),
    Entry(26, <<"e", "z", "k">>, <<<<"e", "z", "e", "k", "i", "e", "l">>,
      <<"e", "z", "e", "q", "u", "i", "e", "l">>, <<"e", "z", "k">>>>),
    Entry(27, <<"d", "a", "n">>, <<<<"d", "a", "n", "i", "e", "l">>, <<"d",
      "a", "n">>>>),
    Entry(28, <<"h", "o", "s">>, <<<<"h", "o", "s", "e", "a">>, <<"o", "s",
      "e", "a", "s">>, <<"h", "o", "s">>>>),
    Entry(29, <<"j", "o", "l">>, <<<<"j", "o", "e", "l">>, <<"j", "o",
      "l">>>>),
    Entry(30, <<"a", "m", "o">>, <<<<"a", "m", "o", "s">>, <<"a", "m", "ó",
      "s">>, <<"a", "m", "o">>>>),
    Entry(31, <<"o", "b", "a">>, <<<<"o", "b", "a", "d", "i", "a", "h">>,
      <<"a", "b", "d", "i", "a", "s">>, <<"a", "b", "d", "í", "a",
      "s">>, <<"o", "b", "a">>>>),
    Entry(32, <<"j", "o", "n">>, <<<<"j", "o", "n", "a", "h">>, <<"j", "o",
      "n", "a", "s">>, <<"j", "o", "n", "á", "s">>, <<"j", "o", "n">>>>),
    Entry(33, <<"m", "i", "c">>, <<<<"m", "i", "c", "a", "h">>, <<"m", "i",
      "q", "u", "e", "a", "s">>, <<"m", "i", "c">>>>),
    Entry(34, <<"n", "a", "m">>, <<<<"n", "a", "h", "u", "m">>, <<"n", "a",
      "m">>>>),
    Entry(35, <<"h", "a", "b">>, <<<<"h", "a", "b", "a", "k", "k", "u",
      "k">>, <<"h", "a", "b", "a", "c", "u", "c">>, <<"h", "a", "b">>>>),
    Entry(36, <<"z", "e", "p">>, <<<<"z", "e", "p", "h", "a", "n", "i", "a",
      "h">>, <<"s", "o", "f", "o", "n", "i", "a", "s">>, <<"s", "o",
      "f", "o", "n", "í", "a", "s">>, <<"z", "e", "p">>>>),
    Entry(37, <<"h", "a", "g">>, <<<<"h", "a", "g", "g", "a", "i">>, <<"h",
      "a", "g", "e", "o">>, <<"h", "a", "g">>>>),
    Entry(38, <<"z", "e", "c">>, <<<<"z", "e", "c", "h", "a", "r", "i", "a",
      "h">>, <<"z", "a", "c", "a", "r", "i", "a", "s">>, <<"z", "a",
      "c", "a", "r", "í", "a", "s">>, <<"z", "e", "c">>>>),
    Entry(39, <<"m", "a", "l">>, <<<<"m", "a", "l", "a", "c", "h", "i">>,
      <<"m", "a", "l", "a", "q", "u", "i", "a", "s">>, <<"m", "a", "l",
      "a", "q", "u", "í", "a", "s">>, <<"m", "a", "l">>>>),
    Entry(40, <<"m", "a", "t">>, <<<<"m", "a", "t", "t", "h", "e", "w">>,
      <<"m", "a", "t", "e", "o">>, <<"m", "a", "t">>>>),
    Entry(41, <<"m", "r", "k">>, <<<<"m", "a", "r", "k">>, <<"m", "a", "r",
      "c", "o", "s">>, <<"m", "r", "k">>>>),
    Entry(42, <<"l", "u", "k">>, <<<<"l", "u", "k", "e">>, <<"l", "u", "c",
      "a", "s">>, <<"l", "u", "k">>>>),
    Entry(43, <<"j", "h", "n">>, <<<<"j", "o", "h", "n">>, <<"j", "u", "a",
      "n">>, <<"j", "h", "n">>>>),
    Entry(44, <<"a", "c", "t">>, <<<<"a", "c", "t", "s">>, <<"h", "e", "c",
      "h", "o", "s">>, <<"a", "c", "t">>>>),
    Entry(45, <<"r", "o", "m">>, <<<<"r", "o", "m", "a", "n", "s">>, <<"r",
      "o", "m", "a", "n", "o", "s">>, <<"r", "o", "m">>>>),
    Entry(46, <<"1", "c", "o">>, <<<<"1", " ", "c", "o", "r", "i", "n", "t",
      "h", "i", "a", "n", "s">>, <<"1", " ", "c", "o", "r", "i", "n",
      "t", "i", "o", "s">>, <<"1", "c", "o">>>>),
    Entry(47, <<"2", "c", "o">>, <<<<"2", " ", "c", "o", "r", "i", "n", "t",
      "h", "i", "a", "n", "s">>, <<"2", " ", "c", "o", "r", "i", "n",
      "t", "i", "o", "s">>, <<"2", "c", "o">>>>),
    Entry(48, <<"g", "a", "l">>, <<<<"g", "a", "l", "a", "t", "i", "a", "n",
      "s">>, <<"g", "a", "l", "a", "t", "a", "s">>, <<"g", "á", "l",
      "a", "t", "a", "s">>, <<"g", "a", "l">>>>),
    Entry(49, <<"e", "p", "h">>, <<<<"e", "p", "h", "e", "s", "i", "a", "n",
      "s">>, <<"e", "f", "e", "s", "i", "o", "s">>, <<"e", "p", "h">>>>),
    Entry(50, <<"p", "h", "p">>, <<<<"p", "h", "i", "l", "i", "p", "p", "i",
      "a", "n", "s">>, <<"f", "i", "l", "i", "p", "e", "n", "s", "e",
      "s">>, <<"p", "h", "p">>>>),
    Entry(51, <<"c", "o", "l">>, <<<<"c", "o", "l", "o", "s", "s", "i", "a",
      "n", "s">>, <<"c", "o", "l", "o", "s", "e", "n", "s", "e", "s">>,
      <<"c", "o", "l">>>>),
    Entry(52, <<"1", "t", "h">>, <<<<"1", " ", "t", "h", "e", "s", "s", "a",
      "l", "o", "n", "i", "a", "n", "s">>, <<"1", " ", "t", "e", "s",
      "a", "l", "o", "n", "i", "c", "e", "n", "s", "e", "s">>, <<"1",
      "t", "h">>>>),
    Entry(53, <<"2", "t", "h">>, <<<<"2", " ", "t", "h", "e", "s", "s", "a",
      "l", "o", "n", "i", "a", "n", "s">>, <<"2", " ", "t", "e", "s",
      "a", "l", "o", "n", "i", "c", "e", "n", "s", "e", "s">>, <<"2",
      "t", "h">>>>),
    Entry(54, <<"1", "t", "i">>, <<<<"1", " ", "t", "i", "m", "o", "t", "h",
      "y">>, <<"1", " ", "t", "i", "m", "o", "t", "e", "o">>, <<"1",
      "t", "i">>>>),
    Entry(55, <<"2", "t", "i">>, <<<<"2", " ", "t", "i", "m", "o", "t", "h",
      "y">>, <<"2", " ", "t", "i", "m", "o", "t", "e", "o">>, <<"2",
      "t", "i">>>>),
    Entry(56, <<"t", "i", "t">>, <<<<"t", "i", "t", "u", "s">>, <<"t", "i",
      "t", "o">>, <<"t", "i", "t">>>>),
    Entry(57, <<"p", "h", "m">>, <<<<"p", "h", "i", "l", "e", "m", "o",
      "n">>, <<"f", "i", "l", "e", "m", "o", "n">>, <<"f", "i", "l",
      "e", "m", "ó", "n">>, <<"p", "h", "m">>>>),
    Entry(58, <<"h", "e", "b">>, <<<<"h", "e", "b", "r", "e", "w", "s">>,
      <<"h", "e", "b", "r", "e", "o", "s">>, <<"h", "e", "b">>>>),
    Entry(59, <<"j", "a", "s">>, <<<<"j", "a", "m", "e", "s">>, <<"s", "a",
      "n", "t", "i", "a", "g", "o">>, <<"j", "a", "s">>>>),
    Entry(60, <<"1", "p", "e">>, <<<<"1", " ", "p", "e", "t", "e", "r">>,
      <<"1", " ", "p", "e", "d", "r", "o">>, <<"1", "p", "e">>>>),
    Entry(61, <<"2", "p", "e">>, <<<<"2", " ", "p", "e", "t", "e", "r">>,
      <<"2", " ", "p", "e", "d", "r", "o">>, <<"2", "p", "e">>>>),
    Entry(62, <<"1", "j", "n">>, <<<<"1", " ", "j", "o", "h", "n">>, <<"1",
      " ", "j", "u", "a", "n">>, <<"1", "j", "n">>>>),
    Entry(63, <<"2", "j", "n">>, <<<<"2", " ", "j", "o", "h", "n">>, <<"2",
      " ", "j", "u", "a", "n">>, <<"2", "j", "n">>>>),
    Entry(64, <<"3", "j", "n">>, <<<<"3", " ", "j", "o", "h", "n">>, <<"3",
      " ", "j", "u", "a", "n">>, <<"3", "j", "n">>>>),
    Entry(65, <<"j", "u", "d">>, <<<<"j", "u", "d", "e">>, <<"j", "u", "d",
      "a", "s">>, <<"j", "u", "d">>>>),
    Entry(66, <<"r", "e", "v">>, <<<<"r", "e", "v", "e", "l", "a", "t", "i",
      "o", "n">>, <<"a", "p", "o", "c", "a", "l", "i", "p", "s", "i",
      "s">>, <<"r", "e", "v", "e", "l", "a", "c", "i", "o", "n">>,
      <<"r", "e", "v", "e", "l", "a", "c", "i", "ó", "n">>, <<"r", "e",
      "v">>>>)>>

\* lines 106-108: the aliases BOOK_INFO has as keys
BookInfoKeys ==
  UNION {{NamesOrders[i].names[k] : k \in 1..Len(NamesOrders[i].names)} :
           i \in 1..Len(NamesOrders)}

RECURSIVE AliasesFrom(_)
\* the aliases of entries i.. of the table, in the order the loop meets them
AliasesFrom(i) ==
  IF i > Len(NamesOrders) THEN <<>>
  ELSE NamesOrders[i].names \o AliasesFrom(i + 1)

AliasList == AliasesFrom(1)

\* lines 106-108: BOOK_INFO; an alias listed twice keeps the book of its
\* last assignment
BOOK_INFO ==
  [key \in BookInfoKeys |->
     LET holders == {i \in 1..Len(NamesOrders) :
                       \E k \in 1..Len(NamesOrders[i].names) :
                         NamesOrders[i].names[k] = key}
         last == CHOOSE i \in holders : \A j \in holders : j <= i
     IN [code |-> NamesOrders[last].code, order |-> NamesOrders[last].order]]

\* line 381: the first key of BOOK_INFO, in insertion order, of the book
FirstAlias(code, order) ==
  LET mine == {i \in 1..Len(AliasList) :
                 BOOK_INFO[AliasList[i]] = [code |-> code, order |-> order]}
  IN AliasList[CHOOSE i \in mine : \A j \in mine : i <= j]

Cased == {LowerLetters[i] : i \in 1..Len(LowerLetters)}
           \cup {UpperLetters[i] : i \in 1..Len(UpperLetters)}

\* str.title(): a letter is upper-cased after a character that is not a
\* letter, and lower-cased after a letter
Title(s) ==
  [i \in 1..Len(s) |->
     IF i = 1 \/ s[i - 1] \notin Cased THEN UpperChar(s[i]) ELSE LowerChar(s[i])]

\* a key that is trimmed and not lower-cased
NormaliseKeyNoLower(typed) == Strip(typed)

\* line 375
NormaliseKey(typed) == Strip(Lower(typed))

\* the value of normalise_book: ok is FALSE when it raises SystemExit
NotRecognized == [ok |-> FALSE, pretty_name |-> <<>>, code |-> <<>>, order |-> 0]

\* lines 373-382
normalise_book(input) ==
  LET key == NormaliseKey(input) IN
  IF key \notin BookInfoKeys THEN NotRecognized
  ELSE LET info == BOOK_INFO[key]
       IN [ok |-> TRUE, pretty_name |-> Title(FirstAlias(info.code, info.order)),
           code |-> info.code, order |-> info.order]

\* every alias of the table
Aliases == BookInfoKeys

\* the ways a user may type an alias, and strings that are no alias
UserInputs ==
  UNION {{a, Upper(a), Title(a), <<" ">> \o a \o <<"\n">>, a \o <<"x">>,
          SubSeq(a, 1, Len(a) - 1)} : a \in Aliases}

\* normalise_book is not called
NamesIdle ==
  /\ user_input = <<>>
  /\ book = NotRecognized
  /\ npc = "idle"

NamesInit ==
  /\ user_input \in UserInputs
  /\ book = NotRecognized
  /\ npc = "call"

\* lines 373-382: the call returns, or raises SystemExit
NormaliseBook ==
  /\ npc = "call"
  /\ book' = normalise_book(user_input)
  /\ npc' = IF normalise_book(user_input).ok THEN "done" ELSE "raised"
  /\ UNCHANGED user_input
  /\ UNCHANGED notNames

NamesNext == NormaliseBook

\* ------------------------------------------------------------------------
\* Specifications
\* ------------------------------------------------------------------------
InitExtract == ExtractInit /\ RangeIdle /\ BookIdle /\ ConvertIdle /\ NamesIdle

SpecExtract == InitExtract /\ [][ExtractNext]_vars

InitRange == RangeInit /\ ExtractIdle /\ BookIdle /\ ConvertIdle /\ NamesIdle

SpecRange == InitRange /\ [][RangeNext]_vars

Init ==
  BookInit /\ ExtractIdle /\ RangeIdle /\ ConvertIdle /\ NamesIdle

Next == BookNext

Spec == Init /\ [][Next]_vars

\* the event loop runs a coroutine that is ready, and a request ends within
\* its timeout (line 130): a download that can take a step takes one
Progress ==
  \/ \E i \in Tasks : TaskAcquire(i)
  \/ \E i \in Tasks : TaskBlock(i)
  \/ \E i \in Tasks : GrabFetchFails(i)
  \/ \E i \in Tasks : GrabFetchReturns(i)
  \/ \E i \in Tasks : GrabParseError(i)
  \/ \E i \in Tasks : GrabNoVerses(i)
  \/ \E i \in Tasks : GrabOpenFile(i)
  \/ \E i \in Tasks : GrabSaveFails(i)
  \/ \E i \in Tasks : GrabWriteFile(i)
  \/ AwaitResult
  \/ AwaitRaises
  \/ DownloadFinish

\* one call of download_book, started with nothing on disk
InitLive == Init /\ files = <<>>

LiveNext ==
  \/ dpc = "idle" /\ DownloadNoChapters
  \/ dpc = "idle" /\ DownloadMkdirFails
  \/ dpc = "idle" /\ DownloadStart
  \/ Progress
  \/ Interrupt

SpecLive == InitLive /\ [][LiveNext]_vars /\ WF_vars(Progress)

InitConvert ==
  ConvertInit /\ ExtractIdle /\ RangeIdle /\ BookIdle /\ NamesIdle

SpecConvert == InitConvert /\ [][ConvertNext]_vars

InitNames ==
  NamesInit /\ ExtractIdle /\ RangeIdle /\ BookIdle /\ ConvertIdle

SpecNames == InitNames /\ [][NamesNext]_vars

\* ------------------------------------------------------------------------
\* convert_bible.py run on what fetch_bible.py left on disk
\* ------------------------------------------------------------------------
\* fetch_bible.py has ended (download finished, interrupted or left by an
\* exception) and parse_version is called for the version directory it
\* wrote: the disk is all that is left of the download
ConvertFetched ==
  /\ cpc = "idle"
  /\ dpc \in {"finished", "interrupted", "raised"}
  /\ out_dir_exists
  /\ book_dirs' = {<<Upper(Version), FileName(BookCode, 1)[2]>>}
  /\ chapter_files' = files
  /\ version_dirs' = <<Upper(Version)>>
  /\ cpc' = "versions"
  /\ UNCHANGED <<args_versions, vdir, bible, book_folders, cur_book, chapters,
                 jfs, jf, exports, processed_count, exit_status, error>>
  /\ UNCHANGED <<files, out_dir_exists>>
  /\ concurrency' = 0
  /\ source' = <<>>
  /\ chapter_list' = <<>>
  /\ pc' = <<>>
  /\ outcome' = <<>>
  /\ result' = <<>>
  /\ sem_value' = 0
  /\ completed' = <<>>
  /\ awaited' = 0
  /\ successful_downloads' = 0
  /\ dpc' = "idle"
  /\ first_saved' = <<>>
  /\ UNCHANGED <<extractVars, rangeVars, namesVars>>

InitRoundTrip ==
  BookInit /\ ExtractIdle /\ RangeIdle /\ ConvertIdle /\ NamesIdle

RoundTripNext ==
  \/ cpc = "idle" /\ BookNext
  \/ ConvertFetched
  \/ ParseVersionStart
  \/ BookFolder
  \/ ChapterFile
  \/ BookDone
  \/ ParseVersionReturn
  \/ ConvertFinish

SpecRoundTrip == InitRoundTrip /\ [][RoundTripNext]_vars

\* ------------------------------------------------------------------------
\* Properties of parse_chapter_html (checked under SpecExtract)
\* ------------------------------------------------------------------------
\* a Tag that starts a verse: a verse-number marker with digit text, or a
\* chapter-number marker with purely numeric text
IsVerseStart(node) ==
  /\ node.kind \in {"versenum", "chapternum"}
  /\ IsDigit(Strip(node.text))

\* the verse number such a marker stands for
MarkerNumber(node) ==
  IF node.kind = "chapternum" THEN 1 ELSE IntOf(Strip(node.text))

\* the verse numbers for which a marker was seen so far
SeenNumbers ==
  {MarkerNumber(dom[i]) : i \in {j \in 1..Len(dom) : IsVerseStart(dom[j])}}

MaxSeen ==
  LET seen == SeenNumbers IN
  IF seen = {} THEN 0 ELSE CHOOSE m \in seen : \A n \in seen : n <= m

\* C1: the verse list holds exactly the numbers 1, 2, ..., max in ascending
\* order, max being the largest number a marker was seen for (an empty list
\* when max = 0), and a number no marker was seen for has empty text.
C1_DenseVerseNumbers ==
  LET vs == verses
      seen == SeenNumbers
  IN
  /\ Len(vs) = MaxSeen
  /\ \A i \in 1..Len(vs) :
       /\ IsDigit(vs[i].verse)
       /\ IntOf(vs[i].verse) = i
       /\ i \notin seen => vs[i].text = <<>> /\ vs[i].readableText = <<>>

\* C1 witness: a gap is filled: verse 3 was announced and holds text while
\* no marker was seen for an earlier number, which is present and empty.
C1_Witness ==
  /\ Len(verses) = 3
  /\ \E i \in 1..2 : i \notin SeenNumbers /\ verses[i].text = <<>>
  /\ verses[3].text # <<>>

\* C2: the visible label of a verse-starting marker never reaches output:
\* visiting the label text node of a verse-number marker with digit text, or
\* of a chapter-number marker with numeric text, adds nothing to any verse.
C2_LabelNeverReachesOutput ==
  [][(todo # None /\ IsVerseStart(dom[Len(dom)]))
       => verses_data' = verses_data]_vars

\* C3: readableText of every verse has no newline, no tab, no run of two
\* spaces and no leading or trailing whitespace.
C3_ReadableTextNormalized ==
  LET vs == verses IN
  \A i \in 1..Len(vs) :
    LET r == vs[i].readableText IN
    /\ \A k \in 1..Len(r) : r[k] \notin {"\n", "\t"}
    /\ \A k \in 1..(Len(r) - 1) : ~(r[k] = " " /\ r[k + 1] = " ")
    /\ r # <<>> => r[1] \notin Whitespace /\ r[Len(r)] \notin Whitespace

\* C3 witness: a verse whose raw text holds a tab between two words, which
\* its readableText renders as one space.
C3_Witness ==
  \E i \in 1..Len(verses) :
    /\ \E k \in 1..Len(verses[i].text) : verses[i].text[k] = "\t"
    /\ verses[i].readableText = <<"a", " ", "a">>

\* ------------------------------------------------------------------------
\* Properties of parse_range (checked under SpecRange)
\* ------------------------------------------------------------------------
\* the positions of the commas of arg, with both ends
CommaCuts ==
  {0, Len(arg) + 1} \cup {i \in 1..Len(arg) : arg[i] = ","}

\* the k-th comma-separated term of arg
Term(k) ==
  LET lo == CHOOSE c \in CommaCuts : Cardinality({d \in CommaCuts : d < c}) = k - 1
      hi == CHOOSE c \in CommaCuts : Cardinality({d \in CommaCuts : d < c}) = k
  IN SubSeq(arg, lo + 1, hi - 1)

NumTerms == Cardinality(CommaCuts) - 1

\* what a term stands for: a single integer, a range a-b with a <= b, or
\* nothing when it is malformed or a > b
TermMeaning(term) ==
  LET t == Strip(term)
      dashes == {i \in 1..Len(t) : t[i] = "-"}
  IN IF IsDigit(t) THEN <<IntOf(t)>>
     ELSE IF Cardinality(dashes) = 1
     THEN LET d == CHOOSE i \in dashes : TRUE
              l == Strip(SubSeq(t, 1, d - 1))
              r == Strip(SubSeq(t, d + 1, Len(t)))
          IN IF IsDigit(l) /\ IsDigit(r) /\ IntOf(l) <= IntOf(r)
             THEN [k \in 1..(IntOf(r) - IntOf(l) + 1) |-> IntOf(l) + k - 1]
             ELSE <<>>
     ELSE <<>>

RECURSIVE MeaningUpTo(_)
MeaningUpTo(k) ==
  IF k = 0 THEN <<>> ELSE MeaningUpTo(k - 1) \o TermMeaning(Term(k))

IsAll == Len(arg) = 3 /\ arg[1] \in {"a", "A"} /\ arg[2] \in {"l", "L"}
           /\ arg[3] \in {"l", "L"}

\* C10: parse_range returns 1..maxChapters for 'all' in any letter case, and
\* otherwise the values of the terms, in the order of the terms, malformed
\* terms and ranges with a > b adding nothing, restricted to [1, maxChapters]
\* with duplicates kept and order preserved.
C10_ParseRangeResult ==
  rpc = "done" =>
    LET all == MeaningUpTo(NumTerms)
        kept == {i \in 1..Len(all) : 1 <= all[i] /\ all[i] <= max_chaps}
        nth(k) == CHOOSE i \in kept : Cardinality({j \in kept : j <= i}) = k
    IN IF IsAll
       THEN /\ Len(range_result) = max_chaps
            /\ \A i \in 1..max_chaps : range_result[i] = i
       ELSE /\ Len(range_result) = Cardinality(kept)
            /\ \A k \in 1..Cardinality(kept) : range_result[k] = all[nth(k)]

\* C10 witness: '1-3,5' with maxChapters = 4 has resolved to [1, 2, 3].
C10_Witness ==
  /\ rpc = "done"
  /\ arg = <<"1", "-", "3", ",", "5">>
  /\ max_chaps = 4
  /\ range_result = <<1, 2, 3>>

\* ------------------------------------------------------------------------
\* Properties of grab, download_book and __main__ (checked under Spec)
\* ------------------------------------------------------------------------
\* the path of the file of task i
PathOf(i) == FileName(BookCode, chapter_list[i])

\* the fetch of task i succeeded, its page has the content container and
\* the extraction returned at least one verse
Extracted(i) ==
  /\ outcome'[i] = "ok"
  /\ source[chapter_list[i]].container
  /\ Len(Data(i).verses) >= 1

C5_ChapterFailureContained == dpc # "raised"

\* C6: at most N chapter tasks are between the start of their request and
\* the end of their fetch-and-extract step, N being the concurrency limit.
C6_AtMostNInFlight ==
  Cardinality({i \in Tasks : pc[i] \in {"fetching", "extracting"}}) <= concurrency

\* C6 witness: the limit is reached with more than one permit: N tasks are
\* in flight and another waits for a permit.
C6_Witness ==
  /\ concurrency >= 2
  /\ Cardinality({i \in Tasks : pc[i] = "fetching"}) = concurrency
  /\ \E i \in Tasks : pc[i] = "waiting"

\* the tasks of this call that saved their file
SavedTasks == {i \in Tasks : pc[i] = "done" /\ result[i] # NoChapter}

\* C7 (as claimed): when download_book finishes, the success count equals
\* the number of distinct chapter files the call wrote, and every requested
\* chapter was counted in the total.
C7_CountIsDistinctFiles ==
  dpc = "finished" =>
    /\ successful_downloads = Cardinality({PathOf(i) : i \in SavedTasks})
    /\ awaited = Len(chapter_list)

\* C7 (amended): when download_book finishes, the success count equals the
\* number of chapter tasks that saved their file, a chapter named by
\* overlapping terms counting once per occurrence, and the total is the
\* length of the resolved chapter list.
C7_CountIsSavedTasks ==
  dpc = "finished" =>
    /\ successful_downloads = Cardinality(SavedTasks)
    /\ awaited = Len(chapter_list)

\* C7 witness: the call for '1,1' has finished with both tasks saved: two
\* successes counted and one file written.
C7_Witness ==
  /\ dpc = "finished"
  /\ chapter_list = <<1, 1>>
  /\ successful_downloads = 2
  /\ Cardinality({PathOf(i) : i \in SavedTasks}) = 1

\* C8: saving a chapter that was saved before, the source being the same,
\* creates no new file and ends with the file of the first save, under the
\* same name, holding the content the first save wrote; no other file
\* changes.
C8_ResaveIdempotent ==
  [][\A i \in Tasks :
       LET first == first_saved[chapter_list[i]] IN
       first.stage # "none" =>
         /\ (pc[i] = "extracting" /\ pc'[i] = "writing") =>
              DOMAIN files' = DOMAIN files
         /\ (pc[i] = "writing" /\ pc'[i] = "done") =>
              /\ first.path \in DOMAIN files
              /\ files' = [files EXCEPT ![first.path] = first.content]
    ]_vars

\* C8 witness: a second call of download_book has saved again a chapter an
\* earlier call saved, and its file holds the content of the first save.
C8_Witness ==
  \E c \in 1..BookChaps :
    /\ first_saved[c].stage = "again"
    /\ dpc = "finished"
    /\ files[first_saved[c].path] = first_saved[c].content

\* C9: an interrupt arriving at any point of a download leaves no
\* half-written chapter record under its final name: every chapter file is
\* absent or holds a complete record.
C9_NoHalfWrittenFile ==
  dpc = "interrupted" => \A f \in DOMAIN files : files[f] # Truncated

\* ------------------------------------------------------------------------
\* Properties of parse_version and of convert_bible's main (checked under
\* SpecConvert)
\* ------------------------------------------------------------------------
\* the documents parse_version has returned to main and main has written
Returned == {exports[f] : f \in DOMAIN exports}

\* C11: in every document returned by parse_version the books are strictly
\* sorted by ascending order number: no two books share an order number.
C11_BooksStrictlyAscending ==
  \A doc \in Returned :
    \A i, j \in 1..Len(doc.books) :
      i < j => doc.books[i].number < doc.books[j].number

\* C12: in every book of a document returned by parse_version the chapters
\* are strictly sorted by ascending chapter number.
C12_ChaptersStrictlyAscending ==
  \A doc \in Returned :
    \A b \in 1..Len(doc.books) :
      LET chs == doc.books[b].chapters IN
      \A i, j \in 1..Len(chs) : i < j => chs[i].number < chs[j].number

\* the chapter file parse_version is about to read, when there is one
NextFile == <<vdir, cur_book.folder, Head(jfs)>>

AboutToRead == cpc = "files" /\ jfs # <<>>

\* a chapter file with malformed JSON or a verse entry without its fields
Malformed(path) ==
  ReadChapter(chapter_files[path]).err \in {"JSONDecodeError", "KeyError"}

\* a chapter file with valid JSON and at least one well-formed verse entry
ValidFile(path) ==
  /\ MatchBookFolder(path[2]).ok
  /\ MatchChapterFile(MatchBookFolder(path[2]).abbr, path[3]).ok
  /\ ReadChapter(chapter_files[path]).err = ""
  /\ ReadChapter(chapter_files[path]).verses # <<>>

\* the document holds the chapter of this file under the book of its folder
Holds(doc, path) ==
  \E b \in 1..Len(doc.books) :
    /\ doc.books[b].number = MatchBookFolder(path[2]).order
    /\ \E c \in 1..Len(doc.books[b].chapters) :
         doc.books[b].chapters[c].number =
           ChapNum(MatchChapterFile(MatchBookFolder(path[2]).abbr, path[3]).digits)

\* C13: a chapter file with malformed JSON, or with a verse entry lacking
\* its required fields, is skipped alone: parse_version goes on with what it
\* has collected, and the document it returns holds every valid chapter
\* file of the version.
C13_MalformedFileSkippedAlone ==
  [][/\ (AboutToRead /\ Malformed(NextFile)) =>
          (cpc' = "files" /\ chapters' = chapters /\ bible' = bible)
     /\ (cpc = "books" /\ cpc' = "versions") =>
          \A path \in DOMAIN chapter_files :
            (path[1] = vdir /\ ValidFile(path)) => Holds(bible', path)
    ]_vars

\* a document with at least one book, every book with at least one chapter
\* and every chapter with at least one verse
NonEmptyAtEachLevel(doc) ==
  /\ doc.books # <<>>
  /\ \A b \in 1..Len(doc.books) :
       /\ doc.books[b].chapters # <<>>
       /\ \A c \in 1..Len(doc.books[b].chapters) :
            doc.books[b].chapters[c].verses # <<>>

\* C14: every document written is non-empty at each level; a chapter file
\* with valid JSON and zero verse entries yields no chapter and the book
\* goes on, a book left without chapter is omitted and the version goes on,
\* and a version left without book writes no file and main goes on.
C14_NonEmptyAtEachLevel ==
  [][/\ \A f \in DOMAIN exports' : NonEmptyAtEachLevel(exports'[f])
     /\ (/\ AboutToRead
         /\ ReadChapter(chapter_files[NextFile]).err = ""
         /\ ReadChapter(chapter_files[NextFile]).verses = <<>>) =>
          (cpc' = "files" /\ chapters' = chapters)
     /\ (cpc = "files" /\ jfs = <<>> /\ chapters = <<>>) =>
          (cpc' = "books" /\ bible' = bible)
     /\ (cpc = "books" /\ book_folders = <<>> /\ bible.books = <<>>) =>
          (cpc' = "versions" /\ exports' = exports)
    ]_vars

Convertible(v) ==
  /\ args_versions # {} => Upper(v) \in Wanted
  /\ \E path \in DOMAIN chapter_files : path[1] = v /\ ValidFile(path)

\* C16: when main ends, every version directory of the root that holds a
\* book folder with a valid chapter file (and is named in --versions when
\* the option is given) has its <VERSION>.fsb.json written.
C16_EveryVersionConverted ==
  cpc = "exited" =>
    \A v \in VersionsOnDisk : Convertible(v) => OutFile(v) \in DOMAIN exports

\* ------------------------------------------------------------------------
\* Properties of normalise_book (checked under SpecNames)
\* ------------------------------------------------------------------------
\* the books of the table that list the trimmed, lower-cased input
HoldersOfInput ==
  {i \in 1..Len(NamesOrders) :
     \E k \in 1..Len(NamesOrders[i].names) :
       NamesOrders[i].names[k] = Strip(Lower(user_input))}

\* C17: normalise_book returns the code and order of the single book of the
\* table that lists the trimmed, lower-cased input among its aliases, and
\* raises the unknown-book error exactly when no book lists it; 'Génesis'
\* and 'gen' both give ('gen', 1).
C17_NormaliseBook ==
  npc \in {"done", "raised"} =>
    /\ (npc = "raised") <=> (HoldersOfInput = {})
    /\ npc = "done" =>
         /\ Cardinality(HoldersOfInput) = 1
         /\ \A i \in HoldersOfInput :
              book.code = NamesOrders[i].code /\ book.order = NamesOrders[i].order
    /\ user_input \in {<<"G", "é", "n", "e", "s", "i", "s">>, <<"g", "e", "n">>} =>
         /\ npc = "done"
         /\ book.code = <<"g", "e", "n">>
         /\ book.order = 1

\* C17 witness: 'Génesis', typed with its capital and its accent, was
\* resolved to a book.
C17_Witness ==
  /\ npc = "done"
  /\ user_input = <<"G", "é", "n", "e", "s", "i", "s">>
  /\ book.ok

\* ------------------------------------------------------------------------
\* Further properties of parse_chapter_html (checked under SpecExtract)
\* ------------------------------------------------------------------------
\* the descendants visited so far: the label of the last Tag is not among
\* them while it is still to be visited
Visited ==
  LET ds == Descendants(dom)
  IN IF todo # None THEN SubSeq(ds, 1, Len(ds) - 1) ELSE ds

\* What was met so far, verse by verse: started tells that a verse marker was
\* met, cur is then the number of the current verse, parts[n] the text nodes
\* and line-break newlines met while n was current, in traversal order, and
\* label tells that the next node is the label of the marker just met, which
\* is consumed.
NothingMet == [started |-> FALSE, cur |-> 0, parts |-> <<>>, label |-> FALSE]

MeetNode(met, node) ==
  IF node.kind # "string"
  THEN IF IsVerseStart(node)
       THEN [started |-> TRUE,
             cur |-> MarkerNumber(node),
             parts |-> IF MarkerNumber(node) \in DOMAIN met.parts THEN met.parts
                       ELSE met.parts @@ (MarkerNumber(node) :> <<>>),
             label |-> node.kind = "versenum" \/ Strip(node.text) = <<"1">>]
       ELSE IF node.kind = "br" /\ met.started
       THEN [met EXCEPT
               !.parts[met.cur] =
                  IF @ = <<>> \/ @[Len(@)] # <<"\n">> THEN Append(@, <<"\n">>) ELSE @,
               !.label = FALSE]
       ELSE [met EXCEPT !.label = FALSE]
  ELSE IF ~met.started THEN met
  ELSE IF met.label THEN [met EXCEPT !.label = FALSE]
  ELSE [met EXCEPT !.parts[met.cur] = Append(@, node.text)]

RECURSIVE MeetAll(_, _)
MeetAll(met, nodes) ==
  IF nodes = <<>> THEN met ELSE MeetAll(MeetNode(met, Head(nodes)), Tail(nodes))

Met == MeetAll(NothingMet, Visited)

\* the trimmed concatenation of what was met while n was current
MetText(met, n) ==
  IF n \in DOMAIN met.parts THEN Strip(Unescape(Join(met.parts[n]))) ELSE <<>>

\* C18: the raw text of output verse n is the trimmed concatenation, in
\* traversal order, of the text nodes and line-break newlines met while n
\* was the current verse, consumed marker labels excepted, and no text met
\* for a verse is dropped: a verse that holds text is in the output.
C18_RawTextIsWhatWasMet ==
  LET met == Met
      vs == verses
  IN /\ \A i \in 1..Len(vs) : vs[i].text = MetText(met, i)
     /\ \A n \in DOMAIN met.parts :
          MetText(met, n) # <<>> => n \in 1..Len(vs)

\* two consecutive newlines somewhere in a text
DoubleNewline(text) ==
  \E j \in 1..(Len(text) - 1) : text[j] = "\n" /\ text[j + 1] = "\n"

RECURSIVE TextOf(_)
\* the text nodes of a node sequence, concatenated
TextOf(nodes) ==
  IF nodes = <<>> THEN <<>>
  ELSE (IF Head(nodes).kind = "string" THEN Head(nodes).text ELSE <<>>)
         \o TextOf(Tail(nodes))

\* C19: whatever the order of line-break nodes and text nodes, the accumulated
\* text of a verse never holds two consecutive newlines (the text nodes
\* themselves holding none), and line-break nodes met with no current verse
\* append nothing.
C19_NeverTwoConsecutiveNewlines ==
  /\ ~DoubleNewline(TextOf(Visited)) =>
       \A k \in DOMAIN verses_data : ~DoubleNewline(Join(verses_data[k]))
  /\ current_verse_num = None => verses_data = <<>>

\* a verse-number or chapter-number marker whose text is not purely digits
IsNoiseMarker(node) ==
  node.kind \in {"versenum", "chapternum"} /\ ~IsDigit(Strip(node.text))

\* the parser's state before the last node of dom was met
BeforeLast ==
  Traverse(ParserState(<<>>, None, FALSE),
           Descendants(SubSeq(dom, 1, Len(dom) - 1)))

\* C20: a marker whose text is not purely digits is ignored as noise: once
\* the marker node and its label text are processed, the current verse
\* number and every verse accumulator are the same as before the marker.
C20_NoiseMarkerChangesNothing ==
  (dom # <<>> /\ todo = None /\ IsNoiseMarker(dom[Len(dom)])) =>
    LET before == BeforeLast
    IN /\ current_verse_num = before.current_verse_num
       /\ verses_data = before.verses_data

\* ------------------------------------------------------------------------
\* Further properties of download_book (checked under Spec)
\* ------------------------------------------------------------------------
\* download_book returned without creating a task: the chapter list was empty
\* or the folder could not be created
BookSkipped == dpc \in {"no_chapters", "mkdir_failed"}

\* the requests issued so far by the tasks of the call
Requested == {i \in Tasks : pc[i] = "fetching" \/ outcome[i] # "none"}

Wrote(i) == result[i] # NoChapter

\* C22 (as stated): no two tasks created for the resolved chapter list write
\* the same file.
C22_NoTwoTasksWriteSameFile ==
  \A i, j \in Tasks : (i # j /\ Wrote(i) /\ Wrote(j)) => PathOf(i) # PathOf(j)

\* C22 (amended): two tasks of a call share their file path exactly when they
\* stand for the same chapter, which happens when the chapter specification
\* names a chapter more than once; tasks of different chapters write
\* different files, and no two tasks are inside write_text at the same time.
C22_SamePathIffSameChapter ==
  /\ \A i, j \in Tasks :
       (PathOf(i) = PathOf(j)) <=> (chapter_list[i] = chapter_list[j])
  /\ Cardinality({i \in Tasks : pc[i] = "writing"}) <= 1

\* '2,1-2' resolved to [2, 1, 2] and every task saved its file: the first and
\* the third wrote the same one, the second another
C22_Witness ==
  /\ chapter_list = <<2, 1, 2>>
  /\ \A i \in Tasks : Wrote(i)
  /\ PathOf(1) = PathOf(3)
  /\ PathOf(1) # PathOf(2)

\* what the event loop shows of task i: where its coroutine is, how its
\* fetch ended and what it returned
TaskState(i) == <<pc[i], outcome[i], result[i]>>

\* C23: between the moment a chapter's fetch returns and the moment its
\* extraction completes, no other chapter task takes a step, in every
\* schedule: while a task extracts, a step of the download (short of the
\* interrupt that ends it) changes no other task.
C23_ExtractionNotInterleaved ==
  [][\A i \in Tasks :
       (pc[i] = "extracting" /\ dpc' = "running") =>
         \A j \in Tasks \ {i} : TaskState(j)' = TaskState(j)
    ]_vars

\* a task extracts while the request of another is in flight and a third
\* waits for a permit
C23_Witness ==
  \E i, j, k \in Tasks :
    /\ pc[i] = "extracting"
    /\ pc[j] = "fetching"
    /\ pc[k] = "waiting"

\* ------------------------------------------------------------------------
\* Properties of the two paths together (checked under SpecRoundTrip)
\* ------------------------------------------------------------------------
\* the numbers 1, 2, ..., n
OneTo(n) == [i \in 1..n |-> i]

\* the document holds, under the book numbered like the fetcher's canonical
\* order, a chapter numbered like the record and whose verse numbers are
\* the record's, 1..max in the same order
Placed(doc, record) ==
  \E b \in 1..Len(doc.books) :
    /\ doc.books[b].number = BookOrder
    /\ \E c \in 1..Len(doc.books[b].chapters) :
         LET chapter == doc.books[b].chapters[c] IN
         /\ chapter.number = IntOf(record.chapter)
         /\ [i \in 1..Len(chapter.verses) |-> chapter.verses[i].number]
              = [i \in 1..Len(record.verses) |-> IntOf(record.verses[i].verse)]
         /\ [i \in 1..Len(chapter.verses) |-> chapter.verses[i].number]
              = OneTo(Len(record.verses))

\* parse_version was called for the fetched directory and has ended
ParseVersionEnded ==
  /\ vdir # <<>>
  /\ cpc \in {"versions", "exited"}

\* C24: every chapter file written by the fetch path is discovered and
\* accepted by parse_version, which places it under the book whose number is
\* the fetcher's canonical order, as a chapter with the fetched chapter
\* number and the fetched verse numbers 1..max in the same order.
C24_RoundTrip ==
  ParseVersionEnded =>
    \A f \in DOMAIN files :
      files[f] # Truncated => Placed(bible, files[f][1])

\* ------------------------------------------------------------------------
\* Termination of download_book (checked under SpecLive)
\* ------------------------------------------------------------------------
\* download_book has returned: every task has finished and was awaited once,
\* and every permit is back
BookReturned ==
  /\ dpc = "finished"
  /\ \A i \in Tasks : pc[i] = "done"
  /\ awaited = Len(chapter_list)
  /\ completed = <<>>
  /\ sem_value = concurrency

\* C25: whatever the limit, the chapter list and the outcome of each fetch,
\* a download that is not interrupted ends with every task finished, every
\* permit released and download_book returned after awaiting each task once.
C25_DownloadBookReturns ==
  (dpc = "running") ~> (BookReturned \/ dpc = "interrupted")

====
